---------------------------- MODULE Spec2Model ----------------------------
(***************************************************************************)
(* Model of storyboard's metadata engine (src/src/storyboard/metadata.py): *)
(* construction of a Video from ffprobe's JSON (container fields, one      *)
(* Stream per raw stream record, container-level mirrors), the streaming   *)
(* scan type detector, and the public operations of a constructed Video    *)
(* (format_metadata, compute_sha1sum).                                     *)
(*                                                                         *)
(* Conventions.                                                            *)
(*  - Python's None is the empty tuple; a non-null scalar v is <<v>>; a    *)
(*    tuple value (a dimension, a float kept as a reduced fraction         *)
(*    <<num, den>>) is the tuple itself.                                    *)
(*  - A JSON object (dict) is a record; `k in d` is "k" \in DOMAIN d.      *)
(*  - A ratio string is a record: Ratio(N, sep, D) for "N:D" or "N/D",     *)
(*    Number(N) for a bare number, Text(t) for any other string.           *)
(*  - A duration is kept in hundredths of a second.                        *)
(*  - Text of the frame probe is a sequence of JSON tokens; a line is one  *)
(*    such sequence (already stripped of surrounding blanks).              *)
(***************************************************************************)
EXTENDS Integers, Sequences, FiniteSets, TLC

VARIABLES
    env,        \* the world outside the program: file, ffprobe's behaviour
    pc,         \* position of Video.__init__ / of the caller
    self,       \* the attributes of the Video object
    i,          \* _process_streams: number of raw stream records consumed
    proc,       \* _get_scan_type: the ffprobe -show_frames process
    pos,        \* _get_scan_type: lines read from proc.stdout so far
    obj_str,    \* _get_scan_type: incremental storage of a JSON object
    objs,       \* _get_scan_type: the frame objects collected so far
    err,        \* the exception that left Video.__init__, or None
    calls,      \* what the program asked of its collaborators, in order
    ret,        \* the last public operation and what it returned
    nops,       \* number of public operations called on the Video
    cli         \* main(): its arguments, locals, output and result

vars == <<env, pc, self, i, proc, pos, obj_str, objs, err, calls, ret, nops,
          cli>>

None == <<>>

(***************************************************************************)
(* Bounds of the model.                                                    *)
(***************************************************************************)
MaxStreams == 3     \* longest list of raw stream records
MaxOps == 2         \* public operations called on one Video
MaxExtra == 2       \* frames ffprobe would emit beyond the sample
MaxCut == 5         \* latest line after which the frame probe dies early
MaxBlank == 7       \* latest line before which an empty line is written
MaxWrites == 1      \* times the file is rewritten while the Video lives
MaxDigits == 10     \* base-1024 digits of the largest file size

(***************************************************************************)
(* Numeric helpers.                                                        *)
(***************************************************************************)
RECURSIVE gcd(_, _)
gcd(a, b) == IF b = 0 THEN a ELSE gcd(b, a % b)

\* a float, kept exactly as a fraction in lowest terms
Frac(n, d) == <<n \div gcd(n, d), d \div gcd(n, d)>>

\* a ratio string of ffprobe: "N:D" or "N/D", a bare number, or other text
Ratio(n, sep, d) == [kind |-> "ratio", num |-> n, sep |-> sep, den |-> d]
Number(n) == [kind |-> "number", num |-> n]
Text(t) == [kind |-> "text", text |-> t]

evaluate_ratio(ratio_str) ==
    IF ratio_str.kind = "ratio"
    THEN IF ratio_str.den = 0 THEN None
         ELSE Frac(ratio_str.num, ratio_str.den)
    ELSE IF ratio_str.kind = "number" THEN Frac(ratio_str.num, 1) ELSE None

\* the characters of a ratio string, as ffprobe wrote them
RatioText(s) ==
    IF s.kind = "ratio" THEN ToString(s.num) \o s.sep \o ToString(s.den)
    ELSE IF s.kind = "number" THEN ToString(s.num) ELSE s.text

Pad2(n) == IF n < 10 THEN "0" \o ToString(n) ELSE ToString(n)

\* "%.2f" of the fraction f: hundredths rounded to nearest
Fmt2(f) ==
    LET h == (200 * f[1] + f[2]) \div (2 * f[2])
    IN  ToString(h \div 100) \o "." \o Pad2(h % 100)

\* "%.1f" of n / d
Fmt1(n, d) ==
    LET t == (20 * n + d) \div (2 * d)
    IN  ToString(t \div 10) \o "." \o ToString(t % 10)

(***************************************************************************)
(* Stream: the per-stream metadata object.                                 *)
(***************************************************************************)
Stream ==
    [index |-> None, type |-> None, codec |-> None,
     bit_rate |-> None, bit_rate_text |-> None, language_code |-> None,
     width |-> None, height |-> None,
     dimension |-> None, dimension_text |-> None,
     frame_rate |-> None, frame_rate_text |-> None,
     dar |-> None, dar_text |-> None,
     info_string |-> None]

Has(d, k) == k \in DOMAIN d

\* int(round(x / 1000)) of a non-negative integer x, ties to even
RoundKilo(x) ==
    LET q == x \div 1000
        r == x % 1000
    IN  IF r > 500 \/ (r = 500 /\ q % 2 = 1) THEN q + 1 ELSE q

\* the bit rate kept without its text
BitRateWithoutText(sdict) ==
    IF Has(sdict, "bit_rate")
    THEN [bit_rate |-> <<sdict.bit_rate>>, bit_rate_text |-> None]
    ELSE [bit_rate |-> None, bit_rate_text |-> None]

\* the bit rate and its text, shared by the video and the audio branch
BitRate(sdict) ==
    IF Has(sdict, "bit_rate")
    THEN [bit_rate |-> <<sdict.bit_rate>>,
          bit_rate_text |-> <<ToString(RoundKilo(sdict.bit_rate)) \o " kb/s">>]
    ELSE [bit_rate |-> None, bit_rate_text |-> None]

\* the language tag, shared by the audio and the subtitle branch
Language(sdict) ==
    IF Has(sdict, "tags")
    THEN IF Has(sdict.tags, "language") THEN <<sdict.tags.language>>
         ELSE IF Has(sdict.tags, "LANGUAGE") THEN <<sdict.tags.LANGUAGE>>
         ELSE None
    ELSE None

\* the result of a step that may raise: the exception or None, the Stream
\* built, and the Video attributes as the step left them
Raise(e, video) == [err |-> <<e>>, s |-> Stream, video |-> video]
Return(s, video) == [err |-> None, s |-> s, video |-> video]

VideoCodec(sdict) ==
    IF ~Has(sdict, "codec_name") THEN <<"unknown codec">>
    ELSE IF sdict.codec_name = "h264"
    THEN IF Has(sdict, "profile") /\ Has(sdict, "level")
         THEN <<"H.264 (" \o sdict.profile \o " Profile level "
                 \o Fmt1(sdict.level, 10) \o ")">>
         ELSE <<"H.264">>
    ELSE IF sdict.codec_name = "mpeg2video"
    THEN IF Has(sdict, "profile")
         THEN <<"MPEG-2 video (" \o sdict.profile \o " Profile)">>
         ELSE <<"MPEG-2 video">>
    ELSE IF sdict.codec_name = "mpeg4"
    THEN IF Has(sdict, "profile")
         THEN <<"MPEG-4 Part 2 (" \o sdict.profile \o ")">>
         ELSE <<"MPEG-4 Part 2">>
    ELSE IF sdict.codec_name = "mjpeg" THEN <<"MJPEG">>
    ELSE IF sdict.codec_name = "theora" THEN <<"Theora">>
    ELSE IF Has(sdict, "codec_long_name") THEN <<sdict.codec_long_name>>
    ELSE None    \* sdict['codec_long_name'] raises KeyError

\* the frame rate text of a non-null frame rate
FrameRateText(fps) ==
    LET int_fps == fps[1] \div fps[2]
    IN  IF 10000 * (fps[1] - int_fps * fps[2]) < fps[2]
        THEN ToString(int_fps) \o " fps"
        ELSE Fmt2(fps) \o " fps"

VideoFrameRate(sdict) ==
    IF Has(sdict, "r_frame_rate") THEN evaluate_ratio(sdict.r_frame_rate)
    ELSE IF Has(sdict, "avg_frame_rate")
    THEN evaluate_ratio(sdict.avg_frame_rate)
    ELSE None

\* the mirrors of the Video: set from a stream only while still None
SetDimension(video, s) ==
    IF video.dimension = None
    THEN [video EXCEPT !.dimension = s.dimension,
                       !.dimension_text = s.dimension_text]
    ELSE video

SetDar(video, s) ==
    IF video.dar = None
    THEN [video EXCEPT !.dar = s.dar, !.dar_text = s.dar_text]
    ELSE video

\* the mirror overwritten by every video stream
SetFrameRateAlways(video, s) ==
    [video EXCEPT !.frame_rate = s.frame_rate,
                  !.frame_rate_text = s.frame_rate_text]

SetFrameRate(video, s) ==
    IF video.frame_rate = None
    THEN [video EXCEPT !.frame_rate = s.frame_rate,
                       !.frame_rate_text = s.frame_rate_text]
    ELSE video

\* the fallback written as width:height, not reduced
VideoDarUnreduced(sdict) ==
    LET dar0 == IF Has(sdict, "display_aspect_ratio")
                THEN evaluate_ratio(sdict.display_aspect_ratio)
                ELSE None
    IN  IF dar0 # None
        THEN [err |-> None, dar |-> dar0,
              dar_text |-> <<RatioText(sdict.display_aspect_ratio)>>]
        ELSE IF sdict.height = 0
        THEN [err |-> <<"ZeroDivisionError">>, dar |-> None, dar_text |-> None]
        ELSE [err |-> None, dar |-> Frac(sdict.width, sdict.height),
              dar_text |-> <<ToString(sdict.width) \o ":"
                              \o ToString(sdict.height)>>]

\* the display aspect ratio and its text: of the field when it evaluates,
\* else of width and height reduced by their gcd (a division by zero when
\* the gcd or the reduced height is 0)
VideoDar(sdict) ==
    LET dar0 == IF Has(sdict, "display_aspect_ratio")
                THEN evaluate_ratio(sdict.display_aspect_ratio)
                ELSE None
        g == gcd(sdict.width, sdict.height)
    IN  IF dar0 # None
        THEN [err |-> None, dar |-> dar0,
              dar_text |-> <<RatioText(sdict.display_aspect_ratio)>>]
        ELSE IF g = 0 \/ sdict.height = 0
        THEN [err |-> <<"ZeroDivisionError">>, dar |-> None, dar_text |-> None]
        ELSE [err |-> None,
              dar |-> Frac(sdict.width \div g, sdict.height \div g),
              dar_text |-> <<ToString(sdict.width \div g) \o ":"
                              \o ToString(sdict.height \div g)>>]

_process_video_stream(video, sdict) ==
    LET codec == VideoCodec(sdict)
    IN  IF codec = None THEN Raise("KeyError", video)
        ELSE IF ~Has(sdict, "width") \/ ~Has(sdict, "height")
        THEN Raise("KeyError", video)
        ELSE
        LET s1 == [Stream EXCEPT
                     !.type = <<"video">>, !.codec = codec,
                     !.width = <<sdict.width>>, !.height = <<sdict.height>>,
                     !.dimension = <<sdict.width, sdict.height>>,
                     !.dimension_text =
                        <<ToString(sdict.width) \o "x" \o ToString(sdict.height)>>]
            v1 == SetDimension(video, s1)
            d == VideoDar(sdict)
        IN  IF d.err # None THEN Raise(d.err[1], v1)
            ELSE
            LET s2 == [s1 EXCEPT !.dar = d.dar, !.dar_text = d.dar_text]
                v2 == SetDar(v1, s2)
                fps == VideoFrameRate(sdict)
                s3 == [s2 EXCEPT
                         !.frame_rate = fps,
                         !.frame_rate_text =
                            IF fps # None THEN <<FrameRateText(fps)>> ELSE None]
                v3 == SetFrameRate(v2, s3)
                br == BitRate(sdict)
                s4 == [s3 EXCEPT !.bit_rate = br.bit_rate,
                                 !.bit_rate_text = br.bit_rate_text]
                info0 == "Video, " \o s4.codec[1] \o ", " \o s4.dimension_text[1]
                            \o " (DAR " \o s4.dar_text[1] \o ")"
                info1 == IF s4.frame_rate_text # None /\ s4.frame_rate_text[1] # ""
                         THEN info0 \o ", " \o s4.frame_rate_text[1] ELSE info0
                info2 == IF s4.bit_rate_text # None /\ s4.bit_rate_text[1] # ""
                         THEN info1 \o ", " \o s4.bit_rate_text[1] ELSE info1
            IN  Return([s4 EXCEPT !.info_string = <<info2>>], v3)

AudioCodec(sdict) ==
    IF ~Has(sdict, "codec_name") THEN <<"unknown codec">>
    ELSE IF sdict.codec_name = "aac"
    THEN IF Has(sdict, "profile")
         THEN <<"AAC (" \o (IF sdict.profile = "LC" THEN "Low Complexity"
                                                   ELSE sdict.profile) \o ")">>
         ELSE <<"AAC">>
    ELSE IF sdict.codec_name = "ac3" THEN <<"Dolby AC-3">>
    ELSE IF sdict.codec_name = "mp3" THEN <<"MP3">>
    ELSE IF sdict.codec_name = "vorbis" THEN <<"Vorbis">>
    ELSE IF Has(sdict, "codec_long_name") THEN <<sdict.codec_long_name>>
    ELSE None    \* sdict['codec_long_name'] raises KeyError

_process_audio_stream(video, sdict) ==
    LET codec == AudioCodec(sdict)
    IN  IF codec = None THEN Raise("KeyError", video)
        ELSE
        LET br == BitRate(sdict)
            lang == Language(sdict)
            s1 == [Stream EXCEPT
                     !.type = <<"audio">>, !.codec = codec,
                     !.bit_rate = br.bit_rate,
                     !.bit_rate_text = br.bit_rate_text,
                     !.language_code = lang]
            info0 == IF lang # None /\ lang[1] # ""
                     THEN "Audio (" \o lang[1] \o "), " \o codec[1]
                     ELSE "Audio, " \o codec[1]
            info1 == IF s1.bit_rate_text # None /\ s1.bit_rate_text[1] # ""
                     THEN info0 \o ", " \o s1.bit_rate_text[1] ELSE info0
        IN  Return([s1 EXCEPT !.info_string = <<info1>>], video)

SubtitleCodec(sdict) ==
    IF ~Has(sdict, "codec_name")
    THEN IF Has(sdict, "codec_tag_string") /\ sdict.codec_tag_string = "c608"
         THEN <<"EIA-608">> ELSE <<"unknown codec">>
    ELSE IF sdict.codec_name = "srt" THEN <<"SubRip">>
    ELSE IF sdict.codec_name = "ass" THEN <<"ASS">>
    ELSE IF sdict.codec_name = "cc_dec"
    THEN <<"closed caption (EIA-608 / CEA-708)">>
    ELSE IF Has(sdict, "codec_long_name") THEN <<sdict.codec_long_name>>
    ELSE None    \* sdict['codec_long_name'] raises KeyError

_process_subtitle_stream(video, sdict) ==
    LET codec == SubtitleCodec(sdict)
    IN  IF codec = None THEN Raise("KeyError", video)
        ELSE
        LET lang == Language(sdict)
            s1 == [Stream EXCEPT
                     !.type = <<"subtitle">>, !.codec = codec,
                     !.language_code = lang]
            info == IF lang # None /\ lang[1] # ""
                    THEN "Subtitle (" \o lang[1] \o "), " \o codec[1]
                    ELSE "Subtitle, " \o codec[1]
        IN  Return([s1 EXCEPT !.info_string = <<info>>], video)

\* s.index = stream_dict['index'], which ends what a branch returned in r
SetIndex(r, stream_dict) ==
    IF r.err # None THEN r
    ELSE IF ~Has(stream_dict, "index") THEN Raise("KeyError", r.video)
    ELSE Return([r.s EXCEPT !.index = <<stream_dict.index>>], r.video)

\* the record without codec_type returned before its index is set
_process_stream_early_return(video, stream_dict) ==
    IF ~Has(stream_dict, "codec_type")
    THEN Return([Stream EXCEPT !.type = <<"unknown">>,
                               !.info_string = <<"Data">>], video)
    ELSE LET r == IF stream_dict.codec_type = "video"
                  THEN _process_video_stream(video, stream_dict)
                  ELSE IF stream_dict.codec_type = "audio"
                  THEN _process_audio_stream(video, stream_dict)
                  ELSE IF stream_dict.codec_type = "subtitle"
                  THEN _process_subtitle_stream(video, stream_dict)
                  ELSE Return([Stream EXCEPT
                                 !.type = <<stream_dict.codec_type>>,
                                 !.info_string = <<"Data">>], video)
         IN  IF r.err # None THEN r
             ELSE IF ~Has(stream_dict, "index") THEN Raise("KeyError", r.video)
             ELSE Return([r.s EXCEPT !.index = <<stream_dict.index>>], r.video)

_process_stream(video, stream_dict) ==
    SetIndex(IF ~Has(stream_dict, "codec_type")
             THEN Return([Stream EXCEPT !.type = <<"unknown">>,
                                        !.info_string = <<"Data">>], video)
             ELSE IF stream_dict.codec_type = "video"
             THEN _process_video_stream(video, stream_dict)
             ELSE IF stream_dict.codec_type = "audio"
             THEN _process_audio_stream(video, stream_dict)
             ELSE IF stream_dict.codec_type = "subtitle"
             THEN _process_subtitle_stream(video, stream_dict)
             ELSE Return([Stream EXCEPT !.type = <<stream_dict.codec_type>>,
                                        !.info_string = <<"Data">>], video),
             stream_dict)

(***************************************************************************)
(* Container metadata.                                                     *)
(***************************************************************************)
\* os.path.splitext(path)[1].lower()[1:] of the extensions of the model
LowerExt ==
    [x \in {"", ".mkv", ".MKV", ".webm", ".WEBM", ".mp4", ".M4V", ".MOV",
            ".3gp", ".3g2", ".mj2", ".avi"} |->
        CASE x = "" -> ""
          [] x \in {".mkv", ".MKV"} -> "mkv"
          [] x \in {".webm", ".WEBM"} -> "webm"
          [] x = ".mp4" -> "mp4"
          [] x = ".M4V" -> "m4v"
          [] x = ".MOV" -> "mov"
          [] x = ".3gp" -> "3gp"
          [] x = ".3g2" -> "3g2"
          [] x = ".mj2" -> "mj2"
          [] x = ".avi" -> "avi"]

\* str.upper() of the lower-cased extensions
Upper ==
    [x \in {"", "mkv", "webm", "mp4", "m4v", "mov", "3gp", "3g2", "mj2",
            "avi"} |->
        CASE x = "" -> ""
          [] x = "mkv" -> "MKV"
          [] x = "webm" -> "WEBM"
          [] x = "mp4" -> "MP4"
          [] x = "m4v" -> "M4V"
          [] x = "mov" -> "MOV"
          [] x = "3gp" -> "3GP"
          [] x = "3g2" -> "3G2"
          [] x = "mj2" -> "MJ2"
          [] x = "avi" -> "AVI"]

Units == <<"", "Ki", "Mi", "Gi", "Ti", "Pi", "Ei", "Zi">>

\* a Python int as its base-1024 digits, most significant first (0 is <<>>)
RECURSIVE Digits1024(_)
Digits1024(n) ==
    IF n = 0 THEN <<>> ELSE Append(Digits1024(n \div 1024), n % 1024)

RECURSIVE Value1024(_)
Value1024(digits) ==
    IF digits = <<>> THEN 0
    ELSE 1024 * Value1024(SubSeq(digits, 1, Len(digits) - 1))
            + digits[Len(digits)]

\* 10 * 0.f1 f2 ... in base 1024: the carry into the integer part and the
\* digits that stay behind the point
RECURSIVE Times10(_)
Times10(frac) ==
    IF frac = <<>> THEN [carry |-> 0, digits |-> <<>>]
    ELSE LET r == Times10(Tail(frac))
             x == 10 * Head(frac) + r.carry
         IN  [carry |-> x \div 1024, digits |-> <<x % 1024>> \o r.digits]

\* "%.1f" of the float whose integer part has the digits whole and whose
\* fraction has the digits frac: tenths rounded to nearest, ties to even
Fmt1Digits(whole, frac) ==
    LET m == Times10(frac)
        rest == m.digits
        above == /\ rest # <<>>
                 /\ \/ rest[1] > 512
                    \/ rest[1] = 512 /\ \E j \in 2..Len(rest) : rest[j] # 0
        tie == /\ rest # <<>>
               /\ rest[1] = 512
               /\ \A j \in 2..Len(rest) : rest[j] = 0
        t == m.carry + (IF above \/ (tie /\ m.carry % 2 = 1) THEN 1 ELSE 0)
    IN  ToString(Value1024(whole) + t \div 10) \o "." \o ToString(t % 10)

RECURSIVE size_loop(_, _, _)
\* the loop that gives up one unit early
size_loop_short(whole, frac, k) ==
    IF k >= Len(Units)
    THEN [unit |-> "Yi", whole |-> whole, frac |-> frac, divisions |-> k - 1]
    ELSE IF Len(whole) <= 1
    THEN [unit |-> Units[k], whole |-> whole, frac |-> frac,
          divisions |-> k - 1]
    ELSE size_loop(SubSeq(whole, 1, Len(whole) - 1),
                   <<whole[Len(whole)]>> \o frac, k + 1)

\* the loop over the units, unit k being tried: tmp has the integer part
\* whole and the fraction frac, the digits the divisions by 1024.0 shifted
\* out; tmp < 1024.0 when whole is of one digit at most
size_loop(whole, frac, k) ==
    IF k > Len(Units)
    THEN [unit |-> "Yi", whole |-> whole, frac |-> frac, divisions |-> k - 1]
    ELSE IF Len(whole) <= 1
    THEN [unit |-> Units[k], whole |-> whole, frac |-> frac,
          divisions |-> k - 1]
    ELSE size_loop(SubSeq(whole, 1, Len(whole) - 1),
                   <<whole[Len(whole)]>> \o frac, k + 1)

\* the text of a size given by its digits
humansize_digits(digits) ==
    LET r == size_loop(digits, <<>>, 1)
    IN  Fmt1Digits(r.whole, r.frac) \o r.unit \o "B"

humansize(size) == humansize_digits(Digits1024(size))

\* t is in hundredths of a second
humantime(t) ==
    LET int_t == t \div 100
        hh == int_t \div 3600
        mm == (int_t \div 60) % 60
        ss == t - (int_t \div 60) * 6000
    IN  Pad2(hh) \o ":" \o Pad2(mm) \o ":" \o Pad2(ss \div 100) \o "."
           \o Pad2(ss % 100)

_get_title(fmt) ==
    IF Has(fmt, "tags") /\ Has(fmt.tags, "title") THEN <<fmt.tags.title>>
    ELSE None

\* the two families named without a look at the extension
_get_format_by_name(fmt, ext) ==
    IF fmt.format_name = "mov,mp4,m4a,3gp,3g2,mj2"
    THEN "MPEG-4 Part 14 (" \o Upper[LowerExt[ext]] \o ")"
    ELSE IF fmt.format_name = "matroska,webm" THEN "Matroska"
    ELSE IF fmt.format_name = "avi" THEN "Audio Video Interleaved"
    ELSE Upper[LowerExt[ext]]

_get_format(fmt, ext) ==
    LET format_name == fmt.format_name
        extension == LowerExt[ext]
    IN  CASE format_name = "mpegts" -> "MPEG transport stream"
          [] format_name = "mpeg" -> "MPEG program stream"
          [] format_name = "mov,mp4,m4a,3gp,3g2,mj2" ->
                IF extension \in {"mov", "qt"} THEN "QuickTime movie"
                ELSE IF extension \in {"3gp"} THEN "3GPP"
                ELSE IF extension \in {"3g2"} THEN "3GPP2"
                ELSE IF extension \in {"mj2", "mjp2"} THEN "Motion JPEG 2000"
                ELSE "MPEG-4 Part 14 (" \o Upper[extension] \o ")"
          [] format_name = "mpegvideo" -> "MPEG video"
          [] format_name = "matroska,webm" ->
                IF extension \in {"webm"} THEN "WebM" ELSE "Matroska"
          [] format_name = "flv" -> "Flash video"
          [] format_name = "ogg" -> "Ogg"
          [] format_name = "avi" -> "Audio Video Interleaved"
          [] format_name = "asf" -> "Advanced Systems Format"
          [] OTHER -> Upper[extension]

\* the attributes of a Video; an attribute not assigned yet reads None
NewVideo ==
    [title |-> None, format |-> None, size |-> None, size_text |-> None,
     duration |-> None, duration_text |-> None, sha1sum |-> None,
     dimension |-> None, dimension_text |-> None,
     frame_rate |-> None, frame_rate_text |-> None,
     dar |-> None, dar_text |-> None,
     streams |-> <<>>, scan_type |-> None]

\* size and duration read with a default of 0 in place of the lookup
ContainerWithDefaults(video, fmt, ext) ==
    IF ~Has(fmt, "format_name") THEN [err |-> <<"KeyError">>, video |-> video]
    ELSE LET size == IF Has(fmt, "size") THEN fmt.size ELSE 0
             duration == IF Has(fmt, "duration") THEN fmt.duration ELSE 0
         IN  [err |-> None,
              video |-> [video EXCEPT
                           !.title = _get_title(fmt),
                           !.format = <<_get_format(fmt, ext)>>,
                           !.size = <<size>>,
                           !.size_text = <<humansize(size)>>,
                           !.duration = <<duration>>,
                           !.duration_text = <<humantime(duration)>>]]

\* Video.__init__, from _get_title to the reset of the mirrors: the exception
\* of the first lookup that fails, or the Video with its container fields
Container(video, fmt, ext) ==
    IF ~Has(fmt, "format_name") THEN [err |-> <<"KeyError">>, video |-> video]
    ELSE IF ~Has(fmt, "size") THEN [err |-> <<"KeyError">>, video |-> video]
    ELSE IF ~Has(fmt, "duration") THEN [err |-> <<"KeyError">>, video |-> video]
    ELSE [err |-> None,
          video |-> [video EXCEPT
                       !.title = _get_title(fmt),
                       !.format = <<_get_format(fmt, ext)>>,
                       !.size = <<fmt.size>>,
                       !.size_text = <<humansize(fmt.size)>>,
                       !.duration = <<fmt.duration>>,
                       !.duration_text = <<humantime(fmt.duration)>>,
                       !.sha1sum = None,
                       !.dimension = None, !.dimension_text = None,
                       !.frame_rate = None, !.frame_rate_text = None,
                       !.dar = None, !.dar_text = None]]

(***************************************************************************)
(* The text of ffprobe -show_frames -print_format json, as JSON tokens,    *)
(* and json.loads on such text.                                            *)
(***************************************************************************)
MediaType == "\"media_type\": \"video\""
Interlaced0 == "\"interlaced_frame\": 0"
Interlaced1 == "\"interlaced_frame\": 1"
PixFmt == "\"pix_fmt\": \"yuv420p\""
FramesKey == "\"frames\":"
SideDataKey == "\"side_data_list\":"

\* a "key": scalar member, as the dict entry json.loads makes of it
ScalarMember(tok) ==
    CASE tok = MediaType -> [media_type |-> "video"]
      [] tok = Interlaced0 -> [interlaced_frame |-> 0]
      [] tok = Interlaced1 -> [interlaced_frame |-> 1]
      [] tok = PixFmt -> [pix_fmt |-> "yuv420p"]

KeyName(tok) == IF tok = FramesKey THEN "frames" ELSE "side_data_list"

Tok(t, j) == IF j <= Len(t) THEN t[j] ELSE "EOF"

\* a parse from token j: the index after the value (0: no value there) and
\* the value
Fail == [next |-> 0, val |-> <<>>]

RECURSIVE PValue(_, _), PMembers(_, _, _), PElements(_, _, _)

PMember(t, j) ==
    IF Tok(t, j) \in {MediaType, Interlaced0, Interlaced1, PixFmt}
    THEN [next |-> j + 1, val |-> ScalarMember(Tok(t, j))]
    ELSE IF Tok(t, j) \in {FramesKey, SideDataKey}
    THEN LET v == PValue(t, j + 1)
         IN  IF v.next = 0 THEN Fail
             ELSE [next |-> v.next, val |-> (KeyName(Tok(t, j)) :> v.val)]
    ELSE Fail

\* the members of an object from token j on, acc holding those before
PMembers(t, j, acc) ==
    LET m == PMember(t, j)
    IN  IF m.next = 0 THEN Fail
        ELSE IF Tok(t, m.next) = ","
        THEN PMembers(t, m.next + 1, m.val @@ acc)
        ELSE IF Tok(t, m.next) = "}"
        THEN [next |-> m.next + 1, val |-> m.val @@ acc]
        ELSE Fail

\* the elements of an array from token j on, acc holding those before
PElements(t, j, acc) ==
    LET v == PValue(t, j)
    IN  IF v.next = 0 THEN Fail
        ELSE IF Tok(t, v.next) = ","
        THEN PElements(t, v.next + 1, Append(acc, v.val))
        ELSE IF Tok(t, v.next) = "]"
        THEN [next |-> v.next + 1, val |-> Append(acc, v.val)]
        ELSE Fail

PValue(t, j) ==
    IF Tok(t, j) = "{"
    THEN IF Tok(t, j + 1) = "}" THEN [next |-> j + 2, val |-> <<>>]
         ELSE PMembers(t, j + 1, <<>>)
    ELSE IF Tok(t, j) = "["
    THEN IF Tok(t, j + 1) = "]" THEN [next |-> j + 2, val |-> <<>>]
         ELSE PElements(t, j + 1, <<>>)
    ELSE Fail

\* json.loads: ok is FALSE where it raises ValueError
json_loads(t) ==
    LET v == PValue(t, 1)
    IN  IF v.next = Len(t) + 1 THEN [ok |-> TRUE, val |-> v.val]
        ELSE [ok |-> FALSE, val |-> <<>>]

(***************************************************************************)
(* What the ffprobe -show_frames process writes: a producer is             *)
(*   layout  "pretty" (one token group per line, as ffprobe prints it),    *)
(*           "compact" (one frame object per line) or "comma_first" (one   *)
(*           frame object per line, the comma between two frame objects    *)
(*           at the start of the line of the second),                      *)
(*   header  the number of lines the opening  { "frames": [  is spread on, *)
(*   n       the number of video frames of the file,                       *)
(*   a       the interlaced flag of frames 1..20 and of those after 40,    *)
(*   k       how many of the frames from 21 on are flagged interlaced,     *)
(*   b       the flag of the other frames 21..40,                          *)
(*   nested  whether a frame carries a nested side_data_list,              *)
(*   blank   the line before which an empty line is written (0: none),     *)
(*   cut     the number of lines after which the process dies (-1: never). *)
(* A flag is "1", "0" or "none" (the frame has no interlaced_frame key).   *)
(***************************************************************************)
SampleSize == 40
Dropped == 20
Telecined == 8

Flag(p, f) ==
    IF f <= Dropped \/ f > SampleSize THEN p.a
    ELSE IF f <= Dropped + p.k THEN "1" ELSE p.b

FlagMember(p, f) ==
    CASE Flag(p, f) = "1" -> Interlaced1
      [] Flag(p, f) = "0" -> Interlaced0
      [] OTHER -> PixFmt

SideData == <<SideDataKey, "[", "{", PixFmt, "}", "]">>

\* the lines of the opening wrapper
HeaderLines(p) ==
    CASE p.header = 1 -> << <<"{", FramesKey, "[">> >>
      [] p.header = 2 -> << <<"{">>, <<FramesKey, "[">> >>
      [] OTHER -> << <<"{">>, <<FramesKey>>, <<"[">> >>

\* the lines of frame f of n
FrameLines(p, f) ==
    LET close == IF f < p.n THEN <<"}", ",">> ELSE <<"}">>
        side == IF p.nested THEN <<",">> \o SideData ELSE <<>>
    IN  IF p.layout = "compact"
        THEN << <<"{", MediaType, ",", FlagMember(p, f)>> \o side \o close >>
        ELSE IF p.layout = "comma_first"
        THEN << (IF f > 1 THEN <<",">> ELSE <<>>)
                \o <<"{", MediaType, ",", FlagMember(p, f)>> \o side
                \o <<"}">> >>
        ELSE << <<"{">>, <<MediaType, ",">>,
                <<FlagMember(p, f)>> \o side, close >>

FrameLen(p) == IF p.layout = "pretty" THEN 4 ELSE 1

\* line number q (from 1) of the complete output, without the empty line
FullLine(p, q) ==
    IF q <= p.header THEN HeaderLines(p)[q]
    ELSE IF q <= p.header + FrameLen(p) * p.n
    THEN LET r == q - p.header - 1
         IN  FrameLines(p, (r \div FrameLen(p)) + 1)[(r % FrameLen(p)) + 1]
    ELSE IF q = p.header + FrameLen(p) * p.n + 1 THEN <<"]">>
    ELSE <<"}">>

FullCount(p) ==
    p.header + FrameLen(p) * p.n + 2 + (IF p.blank > 0 THEN 1 ELSE 0)

\* the lines proc.stdout yields before end of file
NumLines(p) ==
    IF p.cut >= 0 /\ p.cut < FullCount(p) THEN p.cut ELSE FullCount(p)

\* line number q (from 1) of proc.stdout, stripped
LineAt(p, q) ==
    IF p.blank = 0 \/ q < p.blank THEN FullLine(p, q)
    ELSE IF q = p.blank THEN <<>>
    ELSE FullLine(p, q - 1)

(***************************************************************************)
(* The lazily computed SHA-1 digest and the report.                        *)
(***************************************************************************)
\* hashlib.sha1 of the file's bytes: distinct contents, distinct digests
Sha1(content) == "sha1-of-content-" \o ToString(content)

\* the digest computed anew by every call
_get_sha1sum_uncached(video, content) ==
    [video |-> [video EXCEPT !.sha1sum = <<Sha1(content)>>],
     value |-> <<Sha1(content)>>, read |-> TRUE]

\* the Video after the call, the value returned, and whether the file was
\* opened and read
_get_sha1sum(video, content) ==
    IF video.sha1sum # None
    THEN [video |-> video, value |-> video.sha1sum, read |-> FALSE]
    ELSE [video |-> [video EXCEPT !.sha1sum = <<Sha1(content)>>],
          value |-> <<Sha1(content)>>, read |-> TRUE]

compute_sha1sum(video, content) == _get_sha1sum(video, content)

\* Python truth of a nullable string, and of a nullable float
Truthy(x) == x # None /\ x[1] # ""
NonZero(f) == f # None /\ f[1] # 0

RECURSIVE StreamLines(_)
StreamLines(streams) ==
    IF streams = <<>> THEN <<>>
    ELSE << "    #" \o ToString(Head(streams).index[1]) \o ": "
               \o Head(streams).info_string[1] >>
         \o StreamLines(Tail(streams))

\* the digest computed by every report, printed or not
format_metadata_hashing(video, filename, include_sha1sum, content) ==
    LET h == _get_sha1sum(video, content)
    IN  [video |-> h.video,
         value |-> <<"Filename:               " \o filename>>
                   \o (IF include_sha1sum
                       THEN <<"SHA-1 digest:           " \o h.value[1]>>
                       ELSE <<>>)
                   \o <<"Streams:">> \o StreamLines(h.video.streams),
         read |-> h.read]

format_metadata(video, filename, include_sha1sum, content) ==
    LET h == IF include_sha1sum THEN _get_sha1sum(video, content)
             ELSE [video |-> video, value |-> None, read |-> FALSE]
        v == h.video
        lines ==
            (IF Truthy(v.title)
             THEN <<"Title:                  " \o v.title[1]>> ELSE <<>>)
         \o <<"Filename:               " \o filename>>
         \o <<"File size:              " \o ToString(v.size[1])
                 \o " (" \o v.size_text[1] \o ")">>
         \o (IF include_sha1sum
             THEN <<"SHA-1 digest:           " \o v.sha1sum[1]>> ELSE <<>>)
         \o <<"Container format:       " \o v.format[1]>>
         \o <<"Duration:               " \o v.duration_text[1]>>
         \o (IF Truthy(v.dimension_text)
             THEN <<"Pixel dimensions:       " \o v.dimension_text[1]>>
             ELSE <<>>)
         \o (IF Truthy(v.dar_text)
             THEN <<"Display aspect ratio:   " \o v.dar_text[1]>> ELSE <<>>)
         \o (IF Truthy(v.scan_type)
             THEN <<"Scan type:              " \o v.scan_type[1]>> ELSE <<>>)
         \o (IF NonZero(v.frame_rate)
             THEN <<"Frame rate:             " \o v.frame_rate_text[1]>>
             ELSE <<>>)
         \o <<"Streams:">>
         \o StreamLines(v.streams)
    IN  [video |-> v, value |-> lines, read |-> h.read]

(***************************************************************************)
(* The inputs of the model.                                                *)
(***************************************************************************)
RawStreams ==
    { [index |-> 0, codec_type |-> "video", codec_name |-> "h264",
       profile |-> "High", level |-> 41, width |-> 1920, height |-> 1080,
       display_aspect_ratio |-> Ratio(16, ":", 9),
       r_frame_rate |-> Ratio(24000, "/", 1001), bit_rate |-> 2500500],
      [index |-> 1, codec_type |-> "video", codec_name |-> "vp8",
       codec_long_name |-> "On2 VP8", width |-> 428, height |-> 240,
       avg_frame_rate |-> Ratio(25, "/", 1)],
      [index |-> 2, codec_type |-> "video", codec_name |-> "mjpeg",
       width |-> 720, height |-> 480,
       display_aspect_ratio |-> Text("N/A"),
       r_frame_rate |-> Ratio(0, "/", 0),
       avg_frame_rate |-> Ratio(30, "/", 1)],
      [index |-> 3, codec_type |-> "video", codec_name |-> "theora",
       height |-> 576],
      [index |-> 4, codec_type |-> "audio", codec_name |-> "aac",
       profile |-> "LC", bit_rate |-> 128000,
       tags |-> [language |-> "eng"]],
      [index |-> 5, codec_type |-> "subtitle", codec_name |-> "srt",
       tags |-> [LANGUAGE |-> "fre"]],
      [index |-> 6, codec_type |-> "data"],
      [index |-> 7],
      [codec_type |-> "audio", codec_name |-> "mp3"] }

StreamLists == UNION {[1..n -> RawStreams] : n \in 0..MaxStreams}

\* video stream records with the frame rates, aspect ratios, dimensions
\* and codecs at the edges of _process_video_stream, and audio and subtitle
\* stream records of codecs the code has no name for
EdgeStreams ==
    { [index |-> 0, codec_type |-> "video", codec_name |-> "theora",
       width |-> 720],
      [index |-> 0, codec_type |-> "video", codec_name |-> "mjpeg",
       width |-> 640, height |-> 480,
       display_aspect_ratio |-> Ratio(4, ":", 3),
       r_frame_rate |-> Ratio(0, "/", 1)],
      [index |-> 1, codec_type |-> "video", codec_name |-> "mjpeg",
       width |-> 640, height |-> 480,
       display_aspect_ratio |-> Ratio(0, ":", 1),
       avg_frame_rate |-> Ratio(0, "/", 0)],
      [index |-> 2, codec_type |-> "video", codec_name |-> "mpeg4",
       width |-> 1920, height |-> 1080],
      [index |-> 0, codec_type |-> "video", codec_name |-> "mpeg2video",
       profile |-> "Main", width |-> 720, height |-> 576,
       display_aspect_ratio |-> Ratio(16, ":", 0),
       r_frame_rate |-> Ratio(2999995, "/", 100000),
       avg_frame_rate |-> Ratio(25, "/", 1)],
      [index |-> 1, codec_type |-> "video", codec_name |-> "mpeg2video",
       width |-> 720, height |-> 576,
       r_frame_rate |-> Ratio(3000005, "/", 100000)],
      [index |-> 2, codec_type |-> "video", codec_name |-> "h264",
       width |-> 1280, height |-> 720,
       display_aspect_ratio |-> Ratio(16, ":", 9),
       r_frame_rate |-> Ratio(30000, "/", 1001),
       avg_frame_rate |-> Ratio(0, "/", 0)],
      [index |-> 3, codec_type |-> "video", codec_name |-> "mjpeg",
       width |-> 1280, height |-> 720,
       r_frame_rate |-> Number(30)],
      [index |-> 0, codec_type |-> "video", codec_name |-> "mjpeg",
       width |-> 640, height |-> 0, r_frame_rate |-> Ratio(25, "/", 1)],
      [index |-> 0, codec_type |-> "video", codec_name |-> "mjpeg",
       width |-> 0, height |-> 0, display_aspect_ratio |-> Text("N/A")],
      [index |-> 0, codec_type |-> "video", codec_name |-> "vp9",
       codec_long_name |-> "Google VP9", width |-> 1920, height |-> 1080,
       r_frame_rate |-> Ratio(24, "/", 1)],
      [index |-> 0, codec_type |-> "video", codec_name |-> "vp9",
       width |-> 1920, height |-> 1080, r_frame_rate |-> Ratio(24, "/", 1)],
      [index |-> 1, codec_type |-> "audio", codec_name |-> "opus",
       codec_long_name |-> "Opus (Opus Interactive Audio Codec)"],
      [index |-> 1, codec_type |-> "audio", codec_name |-> "opus"],
      [index |-> 2, codec_type |-> "subtitle", codec_name |-> "mov_text",
       codec_long_name |-> "MOV text"],
      [index |-> 2, codec_type |-> "subtitle", codec_name |-> "mov_text"] }

\* one or two of them in a file
EdgeLists ==
    { <<a>> : a \in EdgeStreams }
    \cup { <<a, b>> : a \in EdgeStreams, b \in EdgeStreams }

FullFormat ==
    [format_name |-> "matroska,webm", size |-> 8687494, duration |-> 17382,
     tags |-> [title |-> "FSF 30"]]

Formats ==
    { FullFormat,
      [format_name |-> "matroska,webm", size |-> 1536, duration |-> 366100],
      [format_name |-> "mov,mp4,m4a,3gp,3g2,mj2", size |-> 0, duration |-> 0,
       tags |-> [title |-> ""]],
      [format_name |-> "avi", size |-> 1024, duration |-> 17333,
       tags |-> [encoder |-> "Lavf"]],
      [format_name |-> "nut", size |-> 1048576, duration |-> 100],
      [format_name |-> "matroska,webm", duration |-> 17382],
      [format_name |-> "matroska,webm", size |-> 8687494],
      [format_name |-> "matroska,webm"] }

Extensions ==
    {"", ".mkv", ".MKV", ".webm", ".WEBM", ".mp4", ".M4V", ".MOV", ".3gp",
     ".3g2", ".mj2", ".avi"}

Flags == {"0", "1", "none"}

\* a complete output in ffprobe's own layout
Producer(layout, n, a, k, b) ==
    [layout |-> layout, header |-> 2, n |-> n, a |-> a, k |-> k, b |-> b,
     nested |-> FALSE, blank |-> 0, cut |-> -1]

\* files with at least the sampled number of video frames
LongProducers ==
    { Producer("compact", SampleSize + e, a, k, b) :
        e \in 0..MaxExtra, a \in Flags, k \in 0..(SampleSize - Dropped),
        b \in {"0", "none"} }
    \cup { Producer("pretty", SampleSize + e, "0", k, "0") :
             e \in 0..MaxExtra, k \in {0, Telecined, SampleSize - Dropped} }

\* files with fewer video frames
ShortProducers ==
    { Producer(layout, n, "1", 0, "1") :
        layout \in {"compact", "pretty"}, n \in 0..(SampleSize - 1) }

\* a process that dies early, an empty line in the output, an opening wrapper
\* spread otherwise, nested objects in the frames, commas that open a line
OddProducers ==
    { [Producer(layout, n, "1", 0, "0") EXCEPT !.cut = c] :
        layout \in {"compact", "pretty"}, n \in {1, SampleSize},
        c \in 0..MaxCut }
    \cup { [Producer(layout, n, "1", 0, "0") EXCEPT !.blank = q] :
             layout \in {"compact", "pretty"}, n \in {1, SampleSize},
             q \in 1..MaxBlank }
    \cup { [Producer(layout, n, "0", Telecined, "0") EXCEPT !.header = h] :
             layout \in {"compact", "pretty"}, n \in {1, SampleSize + 1},
             h \in {1, 3} }
    \cup { [Producer(layout, SampleSize, "0", Telecined, "0")
               EXCEPT !.nested = TRUE] : layout \in {"compact", "pretty"} }
    \cup { Producer("comma_first", n, "1", 0, "0") : n \in {1, 2, SampleSize} }

Producers == LongProducers \cup ShortProducers \cup OddProducers

BaseEnv ==
    [exists |-> TRUE, filename |-> "FSF_30_240p", extension |-> ".webm",
     returncode |-> 0,
     ffprobe |-> [format |-> FullFormat,
                  streams |-> <<CHOOSE r \in RawStreams :
                                   Has(r, "index") /\ r.index = 0>>],
     producer |-> Producer("compact", SampleSize, "0", 0, "0"),
     content |-> 1]

\* the inputs: every list of raw stream records, or one or two records at
\* the edges, or every producer, or every format record and extension, or a
\* missing file or a failing ffprobe, the rest being as in BaseEnv or a
\* file without video frames
IsInput(e) ==
    \/ \E ss \in StreamLists :
         e = [BaseEnv EXCEPT !.ffprobe.streams = ss,
                             !.producer = Producer("compact", 0, "0", 0, "0")]
    \/ \E ss \in EdgeLists :
         e = [BaseEnv EXCEPT !.ffprobe.streams = ss,
                             !.producer = Producer("compact", 0, "0", 0, "0")]
    \/ \E p \in Producers : e = [BaseEnv EXCEPT !.producer = p]
    \/ \E f \in Formats, x \in Extensions :
         e = [BaseEnv EXCEPT !.ffprobe.format = f, !.extension = x,
                             !.producer = Producer("compact", 0, "0", 0, "0")]
    \/ \E x \in BOOLEAN, rc \in {0, 1} :
         e = [BaseEnv EXCEPT !.exists = x, !.returncode = rc]

(***************************************************************************)
(* The state machine.                                                      *)
(***************************************************************************)
NoCall == [op |-> "none", include_sha1sum |-> FALSE, value |-> <<>>]

\* main() is not running: the Video is constructed by another caller
NoCli ==
    [state |-> "off", videos |-> <<>>, include_sha1sum |-> FALSE, k |-> 0,
     returncode |-> 0, out |-> <<>>]

Init ==
    /\ IsInput(env)
    /\ pc = "init"
    /\ self = NewVideo
    /\ i = 0
    /\ proc = "none"
    /\ pos = 0
    /\ obj_str = <<>>
    /\ objs = <<>>
    /\ err = None
    /\ calls = <<>>
    /\ ret = NoCall
    /\ nops = 0
    /\ cli = NoCli

scan == <<proc, pos, obj_str, objs>>

\* an exception leaves Video.__init__: no Video is produced
Fails(e) == pc' = "failed" /\ err' = <<e>>

\* the path is not looked at before ffprobe is called
CheckPathUnchecked ==
    /\ pc = "init"
    /\ calls' = calls
    /\ pc' = "call_ffprobe"
    /\ UNCHANGED <<env, self, i, scan, err, ret, nops, cli>>

\* Video.__init__: the path must exist
CheckPath ==
    /\ pc = "init"
    /\ calls' = Append(calls, "exists")
    /\ IF env.exists
       THEN pc' = "call_ffprobe" /\ err' = err
       ELSE Fails("OSError")
    /\ UNCHANGED <<env, self, i, scan, ret, nops, cli>>

\* the exit status of ffprobe is not looked at
CallFfprobeUnchecked ==
    /\ pc = "call_ffprobe"
    /\ calls' = Append(calls, "ffprobe")
    /\ pc' = "container"
    /\ UNCHANGED <<env, self, i, scan, err, ret, nops, cli>>

\* Video._call_ffprobe
CallFfprobe ==
    /\ pc = "call_ffprobe"
    /\ calls' = Append(calls, "ffprobe")
    /\ IF env.returncode # 0
       THEN Fails("OSError")
       ELSE pc' = "container" /\ err' = err
    /\ UNCHANGED <<env, self, i, scan, ret, nops, cli>>

\* Video.__init__: title, format, size, duration, sha1sum, the mirrors
ExtractContainer ==
    /\ pc = "container"
    /\ LET r == Container(self, env.ffprobe.format, env.extension)
       IN  /\ self' = r.video
           /\ IF r.err # None THEN Fails(r.err[1])
              ELSE pc' = "streams" /\ err' = err
    /\ i' = 0
    /\ UNCHANGED <<env, scan, calls, ret, nops, cli>>

\* Video._process_streams: the Stream of the outcome r of one record is
\* appended, or the exception of r leaves the loop
AppendStream(r) ==
    IF r.err # None
    THEN self' = r.video /\ i' = i /\ Fails(r.err[1])
    ELSE /\ self' = [r.video EXCEPT !.streams = Append(@, r.s)]
         /\ i' = i + 1
         /\ UNCHANGED <<pc, err>>

\* a record that raises is passed over and the loop goes on
ProcessStreamSkipping ==
    /\ pc = "streams"
    /\ i < Len(env.ffprobe.streams)
    /\ LET r == _process_stream(self, env.ffprobe.streams[i + 1])
       IN  IF r.err # None
           THEN self' = r.video
           ELSE self' = [r.video EXCEPT !.streams = Append(@, r.s)]
    /\ i' = i + 1
    /\ UNCHANGED <<pc, err>>
    /\ UNCHANGED <<env, scan, calls, ret, nops, cli>>

\* Video._process_streams: one pass of its loop
ProcessStream ==
    /\ pc = "streams"
    /\ i < Len(env.ffprobe.streams)
    /\ AppendStream(_process_stream(self, env.ffprobe.streams[i + 1]))
    /\ UNCHANGED <<env, scan, calls, ret, nops, cli>>

\* any stream taken for a video stream
HasAnyStream(video) == Len(video.streams) > 0

HasVideoStream(video) ==
    \E j \in 1..Len(video.streams) : video.streams[j].type = <<"video">>

\* Video.__init__: no stream is a video stream
NoVideoStream ==
    /\ pc = "streams"
    /\ i = Len(env.ffprobe.streams)
    /\ ~HasVideoStream(self)
    /\ self' = [self EXCEPT !.scan_type = None]
    /\ pc' = "constructed"
    /\ UNCHANGED <<env, i, scan, err, calls, ret, nops, cli>>

\* the frame probe started as soon as a video stream is seen
StartFrameProbeEarly ==
    /\ pc = "streams"
    /\ HasVideoStream(self)
    /\ proc' = "running"
    /\ calls' = Append(calls, "ffprobe -show_frames")
    /\ pos' = 0
    /\ pc' = "header"
    /\ UNCHANGED <<env, self, i, obj_str, objs, err, ret, nops, cli>>

\* Video._get_scan_type: the frame probe is started
StartFrameProbe ==
    /\ pc = "streams"
    /\ i = Len(env.ffprobe.streams)
    /\ HasVideoStream(self)
    /\ proc' = "running"
    /\ calls' = Append(calls, "ffprobe -show_frames")
    /\ pos' = 0
    /\ pc' = "header"
    /\ UNCHANGED <<env, self, i, obj_str, objs, err, ret, nops, cli>>

\* Video._get_scan_type: the two lines.__next__() calls
SkipHeader ==
    /\ pc = "header"
    /\ IF NumLines(env.producer) < 2
       THEN pos' = NumLines(env.producer) /\ Fails("StopIteration")
       ELSE pos' = 2 /\ pc' = "sampling" /\ err' = err
    /\ obj_str' = <<>>
    /\ objs' = <<>>
    /\ UNCHANGED <<env, self, i, proc, calls, ret, nops, cli>>

\* the sampling ended one frame late
EnoughLate(frame_objs) == Len(frame_objs) > SampleSize

\* the test that ends the sampling
Enough(frame_objs) == Len(frame_objs) >= SampleSize

\* obj_str with the comma that may follow a complete frame object removed
StripComma(t) == IF t[Len(t)] = "," THEN SubSeq(t, 1, Len(t) - 1) ELSE t

\* Video._get_scan_type: one pass of the loop over the lines
ReadLine ==
    /\ pc = "sampling"
    /\ pos < NumLines(env.producer)
    /\ pos' = pos + 1
    /\ LET text == obj_str \o LineAt(env.producer, pos + 1)
       IN  IF text = <<>>
           THEN Fails("IndexError") /\ UNCHANGED <<obj_str, objs, proc>>
           ELSE LET parsed == json_loads(StripComma(text))
                IN  IF parsed.ok
                    THEN /\ objs' = Append(objs, parsed.val)
                         /\ obj_str' = <<>>
                         /\ IF Enough(Append(objs, parsed.val))
                            THEN proc' = "terminated" /\ pc' = "classify"
                            ELSE UNCHANGED <<proc, pc>>
                         /\ err' = err
                    ELSE /\ obj_str' = text
                         /\ UNCHANGED <<objs, proc, pc, err>>
    /\ UNCHANGED <<env, self, i, calls, ret, nops, cli>>

\* Video._get_scan_type: proc.stdout is at end of file, the loop ends
EndOfOutput ==
    /\ pc = "sampling"
    /\ pos = NumLines(env.producer)
    /\ pc' = "classify"
    /\ UNCHANGED <<env, self, i, scan, err, calls, ret, nops, cli>>

RECURSIVE num_interlaced(_)
num_interlaced(frames) ==
    IF frames = <<>> THEN 0
    ELSE (IF Has(Head(frames), "interlaced_frame")
          THEN Head(frames)["interlaced_frame"] ELSE 0)
         + num_interlaced(Tail(frames))

\* the count taken over the whole sample
ClassificationOfAll(frame_objs) ==
    IF Len(frame_objs) < SampleSize THEN None
    ELSE LET n == num_interlaced(frame_objs)
         IN  IF n = 0 THEN <<"Progressive scan">>
             ELSE IF n = SampleSize - Dropped THEN <<"Interlaced scan">>
             ELSE IF n = Telecined THEN <<"Telecined video">>
             ELSE <<"Interlaced scan">>

\* Video._get_scan_type, from the test of len(objs) to the return
Classification(frame_objs) ==
    IF Len(frame_objs) < SampleSize THEN None
    ELSE LET n == num_interlaced(SubSeq(frame_objs, Dropped + 1, Len(frame_objs)))
         IN  IF n = 0 THEN <<"Progressive scan">>
             ELSE IF n = SampleSize - Dropped THEN <<"Interlaced scan">>
             ELSE IF n = Telecined THEN <<"Telecined video">>
             ELSE <<"Interlaced scan">>

\* the scan type decided on all the frame objects of the sample
ClassifyWholeSample ==
    /\ pc = "classify"
    /\ self' = [self EXCEPT !.scan_type = ClassificationOfAll(objs)]
    /\ pc' = "constructed"
    /\ UNCHANGED <<env, i, scan, err, calls, ret, nops, cli>>

Classify ==
    /\ pc = "classify"
    /\ self' = [self EXCEPT !.scan_type = Classification(objs)]
    /\ pc' = "constructed"
    /\ UNCHANGED <<env, i, scan, err, calls, ret, nops, cli>>

\* Video.format_metadata, called on the constructed Video
FormatMetadata ==
    /\ pc = "constructed"
    /\ nops < MaxOps
    /\ \E include_sha1sum \in BOOLEAN :
         LET r == format_metadata(self, env.filename \o env.extension,
                                  include_sha1sum, env.content)
         IN  /\ self' = r.video
             /\ ret' = [op |-> "format_metadata",
                        include_sha1sum |-> include_sha1sum,
                        value |-> r.value]
             /\ calls' = IF r.read THEN Append(calls, "open") ELSE calls
    /\ nops' = nops + 1
    /\ UNCHANGED <<env, pc, i, scan, err, cli>>

\* Video.compute_sha1sum, called on the constructed Video
ComputeSha1sum ==
    /\ pc = "constructed"
    /\ nops < MaxOps
    /\ LET r == compute_sha1sum(self, env.content)
       IN  /\ self' = r.video
           /\ ret' = [op |-> "compute_sha1sum", include_sha1sum |-> FALSE,
                      value |-> r.value]
           /\ calls' = IF r.read THEN Append(calls, "open") ELSE calls
    /\ nops' = nops + 1
    /\ UNCHANGED <<env, pc, i, scan, err, cli>>

\* the environment: the file is rewritten while the Video lives
RewriteFile ==
    /\ pc = "constructed"
    /\ env.content <= MaxWrites
    /\ env' = [env EXCEPT !.content = @ + 1]
    /\ UNCHANGED <<pc, self, i, scan, err, calls, ret, nops, cli>>

Next ==
    \/ CheckPath
    \/ CallFfprobe
    \/ ExtractContainer
    \/ ProcessStream
    \/ NoVideoStream
    \/ StartFrameProbe
    \/ SkipHeader
    \/ ReadLine
    \/ EndOfOutput
    \/ Classify
    \/ FormatMetadata
    \/ ComputeSha1sum
    \/ RewriteFile

Spec == Init /\ [][Next]_vars

(***************************************************************************)
(* main(): the command-line entry point constructs a Video for each path   *)
(* of its arguments in turn and prints its report.                          *)
(***************************************************************************)
MaxFiles == 2       \* most paths given on one command line

\* the files a command line may name: a file with a video stream, a file
\* with an audio stream only, a missing file, a file ffprobe fails on, a
\* file whose format record has no duration, a file whose video stream
\* record has no width
BatchFiles ==
    { [BaseEnv EXCEPT !.producer = Producer("compact", 0, "0", 0, "0")],
      [BaseEnv EXCEPT !.filename = "audio", !.extension = ".mkv",
                      !.ffprobe.streams =
                          <<CHOOSE r \in RawStreams :
                               Has(r, "index") /\ r.index = 4>>],
      [BaseEnv EXCEPT !.filename = "missing", !.exists = FALSE],
      [BaseEnv EXCEPT !.filename = "broken", !.returncode = 1],
      [BaseEnv EXCEPT !.filename = "no_duration",
                      !.ffprobe.format =
                          [format_name |-> "matroska,webm", size |-> 8687494]],
      [BaseEnv EXCEPT !.filename = "no_width",
                      !.ffprobe.streams =
                          <<CHOOSE r \in RawStreams :
                               Has(r, "index") /\ r.index = 3>>] }

\* main(), from the parsing of the arguments to returncode = 0
MainInit ==
    /\ \E n \in 1..MaxFiles : \E videos \in [1..n -> BatchFiles] :
       \E include_sha1sum \in BOOLEAN :
          cli = [state |-> "loop", videos |-> videos,
                 include_sha1sum |-> include_sha1sum, k |-> 0,
                 returncode |-> 0, out |-> <<>>]
    /\ env = BaseEnv
    /\ pc = "main"
    /\ self = NewVideo
    /\ i = 0
    /\ proc = "none"
    /\ pos = 0
    /\ obj_str = <<>>
    /\ objs = <<>>
    /\ err = None
    /\ calls = <<>>
    /\ ret = NoCall
    /\ nops = 0

\* main(): the loop takes the next path and calls Video(video, params)
MainVideo ==
    /\ cli.state = "loop"
    /\ pc = "main"
    /\ cli.k < Len(cli.videos)
    /\ cli' = [cli EXCEPT !.k = @ + 1]
    /\ env' = cli.videos[cli.k + 1]
    /\ pc' = "init"
    /\ self' = NewVideo
    /\ i' = 0
    /\ proc' = "none"
    /\ pos' = 0
    /\ obj_str' = <<>>
    /\ objs' = <<>>
    /\ err' = None
    /\ calls' = <<>>
    /\ UNCHANGED <<ret, nops>>

\* main(): except OSError: the error is written, returncode = 1, continue
MainExcept ==
    /\ cli.state = "loop"
    /\ pc = "failed"
    /\ err = <<"OSError">>
    /\ cli' = [cli EXCEPT
                 !.returncode = 1,
                 !.out = Append(@, [k |-> cli.k, stream |-> "stderr",
                                    text |-> <<"error: " \o err[1]>>])]
    /\ pc' = "main"
    /\ UNCHANGED <<env, self, i, scan, err, calls, ret, nops>>

\* main(): the except clause catches this exception
MainCatches(e) == e = "OSError"

\* main(): an exception the except clause does not name leaves main()
MainRaise ==
    /\ cli.state = "loop"
    /\ pc = "failed"
    /\ ~MainCatches(err[1])
    /\ cli' = [cli EXCEPT !.state = "raised"]
    /\ UNCHANGED <<env, pc, self, i, scan, err, calls, ret, nops>>

\* main(): the report of the constructed Video is printed
MainPrint ==
    /\ cli.state = "loop"
    /\ pc = "constructed"
    /\ LET r == format_metadata(self, env.filename \o env.extension,
                                cli.include_sha1sum, env.content)
       IN  /\ self' = r.video
           /\ cli' = [cli EXCEPT
                        !.out = Append(@, [k |-> cli.k, stream |-> "stdout",
                                           text |-> r.value])]
           /\ calls' = IF r.read THEN Append(calls, "open") ELSE calls
    /\ pc' = "main"
    /\ UNCHANGED <<env, i, scan, err, ret, nops>>

\* main(): the loop is over, return returncode
MainReturn ==
    /\ cli.state = "loop"
    /\ pc = "main"
    /\ cli.k = Len(cli.videos)
    /\ cli' = [cli EXCEPT !.state = "returned"]
    /\ UNCHANGED <<env, pc, self, i, scan, err, calls, ret, nops>>

MainNext ==
    \/ MainVideo
    \/ CheckPath
    \/ CallFfprobe
    \/ ExtractContainer
    \/ ProcessStream
    \/ NoVideoStream
    \/ StartFrameProbe
    \/ SkipHeader
    \/ ReadLine
    \/ EndOfOutput
    \/ Classify
    \/ MainExcept
    \/ MainRaise
    \/ MainPrint
    \/ MainReturn

MainSpec == MainInit /\ [][MainNext]_vars

\* files of one video stream with at least the sampled number of frames
SampledFiles ==
    { [BaseEnv EXCEPT
         !.producer = Producer("compact", SampleSize + e, a, k, "0")] :
        e \in {0, MaxExtra}, a \in Flags, k \in {0, Telecined, 12} }

\* frames 21..40 of the two files carry the same interlaced flags
SameLatterFlags(v, w) ==
    \A f \in (Dropped + 1)..SampleSize :
        Flag(v.producer, f) = Flag(w.producer, f)

\* main() called on two such files that differ at most in the frames
\* before the 21st and after the 40th
PairInit ==
    /\ \E v \in SampledFiles, w \in SampledFiles :
          /\ SameLatterFlags(v, w)
          /\ cli = [state |-> "loop", videos |-> <<v, w>>,
                    include_sha1sum |-> FALSE, k |-> 0,
                    returncode |-> 0, out |-> <<>>]
    /\ env = BaseEnv
    /\ pc = "main"
    /\ self = NewVideo
    /\ i = 0
    /\ proc = "none"
    /\ pos = 0
    /\ obj_str = <<>>
    /\ objs = <<>>
    /\ err = None
    /\ calls = <<>>
    /\ ret = NoCall
    /\ nops = 0

\* the steps main() takes on such files
PairNext ==
    \/ MainVideo
    \/ CheckPath
    \/ CallFfprobe
    \/ ExtractContainer
    \/ ProcessStream
    \/ StartFrameProbe
    \/ SkipHeader
    \/ ReadLine
    \/ Classify
    \/ MainPrint
    \/ MainReturn

PairSpec == PairInit /\ [][PairNext]_vars


(***************************************************************************)
(* The first metadata module (src/metadata.py): its Video is constructed   *)
(* from the same ffprobe output, without container format, aspect ratio    *)
(* or scan type. An attribute never assigned is absent from the record.    *)
(***************************************************************************)
\* eval(string) under true division: the quotient, or the exception of a
\* zero denominator or of text that is no Python expression
legacy_eval(ratio_str) ==
    IF ratio_str.kind = "number"
    THEN [err |-> None, val |-> Frac(ratio_str.num, 1)]
    ELSE IF ratio_str.kind = "ratio" /\ ratio_str.sep = "/"
    THEN IF ratio_str.den = 0
         THEN [err |-> <<"ZeroDivisionError">>, val |-> None]
         ELSE [err |-> None, val |-> Frac(ratio_str.num, ratio_str.den)]
    ELSE IF ratio_str.kind = "ratio"
    THEN [err |-> <<"SyntaxError">>, val |-> None]
    ELSE [err |-> <<"NameError">>, val |-> None]

\* str.upper() of the codec names of the model
CodecUpper ==
    [x \in {"vp8", "vp9", "theora", "opus"} |->
        CASE x = "vp8" -> "VP8"
          [] x = "vp9" -> "VP9"
          [] x = "theora" -> "THEORA"
          [] x = "opus" -> "OPUS"]

\* '%d' % round(x / 1000) of a non-negative integer x, halves rounded up
LegacyRoundKilo(x) == (x + 500) \div 1000

LegacyBitRate(stream) ==
    IF Has(stream, "bit_rate")
    THEN [bit_rate |-> <<stream.bit_rate>>,
          bit_rate_text |->
              <<ToString(LegacyRoundKilo(stream.bit_rate)) \o " kb/s">>]
    ELSE [bit_rate |-> None, bit_rate_text |-> None]

\* the codec label of a video stream, None where a lookup raises KeyError
LegacyVideoCodec(stream) ==
    IF ~Has(stream, "codec_name") THEN None
    ELSE IF stream.codec_name = "h264"
    THEN IF Has(stream, "profile") /\ Has(stream, "level")
         THEN <<"H.264 (" \o stream.profile \o " Profile level "
                 \o Fmt1(stream.level, 10) \o ")">>
         ELSE None
    ELSE IF stream.codec_name = "mpeg2video"
    THEN IF Has(stream, "profile")
         THEN <<"MPEG-2 video (" \o stream.profile \o " Profile)">>
         ELSE None
    ELSE IF stream.codec_name = "mpeg4"
    THEN IF Has(stream, "profile")
         THEN <<"MPEG-4 Part 2 (" \o stream.profile \o ")">>
         ELSE None
    ELSE IF stream.codec_name = "mjpeg" THEN <<"MJPEG">>
    ELSE <<CodecUpper[stream.codec_name]>>

LegacyAudioCodec(stream) ==
    IF ~Has(stream, "codec_name") THEN None
    ELSE IF stream.codec_name = "aac"
    THEN IF Has(stream, "profile")
         THEN <<"AAC (" \o (IF stream.profile = "LC" THEN "Low Complexity"
                                                    ELSE stream.profile) \o ")">>
         ELSE None
    ELSE IF stream.codec_name = "ac3" THEN <<"Dolby AC-3">>
    ELSE IF stream.codec_name = "mp3" THEN <<"MP3">>
    ELSE <<CodecUpper[stream.codec_name]>>

\* the frame rate of a video stream record, or the exception of eval
LegacyFrameRate(stream) ==
    IF Has(stream, "r_frame_rate") THEN legacy_eval(stream.r_frame_rate)
    ELSE IF Has(stream, "avg_frame_rate")
    THEN legacy_eval(stream.avg_frame_rate)
    ELSE [err |-> None, val |-> None]

LegacyRaise(e) == [err |-> <<e>>, s |-> <<>>]
LegacyReturn(s) == [err |-> None, s |-> s]

LegacyVideoStream(stream) ==
    LET codec == LegacyVideoCodec(stream)
        fps == LegacyFrameRate(stream)
        br == LegacyBitRate(stream)
    IN  IF codec = None THEN LegacyRaise("KeyError")
        ELSE IF ~Has(stream, "width") \/ ~Has(stream, "height")
        THEN LegacyRaise("KeyError")
        ELSE IF fps.err # None THEN LegacyRaise(fps.err[1])
        ELSE
        LET dimension_text ==
                ToString(stream.width) \o "x" \o ToString(stream.height)
            frame_rate_text ==
                IF fps.val # None THEN <<FrameRateText(fps.val)>> ELSE None
            info0 == "Video: " \o codec[1] \o ", " \o dimension_text
            info1 == IF frame_rate_text # None
                     THEN info0 \o ", " \o frame_rate_text[1] ELSE info0
            info2 == IF br.bit_rate_text # None
                     THEN info1 \o ", " \o br.bit_rate_text[1] ELSE info1
        IN  LegacyReturn(
               [index |-> <<stream.index>>, type |-> <<"video">>,
                codec |-> codec,
                width |-> <<stream.width>>, height |-> <<stream.height>>,
                dimension |-> <<stream.width, stream.height>>,
                dimension_text |-> <<dimension_text>>,
                frame_rate |-> fps.val, frame_rate_text |-> frame_rate_text,
                bit_rate |-> br.bit_rate, bit_rate_text |-> br.bit_rate_text,
                info_string |-> <<info2>>])

LegacyAudioStream(stream) ==
    LET codec == LegacyAudioCodec(stream)
        br == LegacyBitRate(stream)
    IN  IF codec = None THEN LegacyRaise("KeyError")
        ELSE LegacyReturn(
               [index |-> <<stream.index>>, type |-> <<"audio">>,
                codec |-> codec,
                bit_rate |-> br.bit_rate, bit_rate_text |-> br.bit_rate_text,
                info_string |->
                    <<IF br.bit_rate_text # None
                      THEN "Audio: " \o codec[1] \o ", " \o br.bit_rate_text[1]
                      ELSE "Audio: " \o codec[1]>>])

\* Video._process_stream of src/metadata.py
legacy_process_stream(stream) ==
    IF ~Has(stream, "index") THEN LegacyRaise("KeyError")
    ELSE IF ~Has(stream, "codec_type") THEN LegacyRaise("KeyError")
    ELSE IF stream.codec_type = "video" THEN LegacyVideoStream(stream)
    ELSE IF stream.codec_type = "audio" THEN LegacyAudioStream(stream)
    ELSE LegacyReturn([index |-> <<stream.index>>,
                       type |-> <<stream.codec_type>>,
                       info_string |-> <<"Data">>])

\* the inputs: one or two stream records of either kind, or every format
\* record, or a missing file or a failing ffprobe
IsLegacyInput(e) ==
    \/ e = [BaseEnv EXCEPT !.ffprobe.streams = <<>>]
    \/ \E a \in RawStreams \cup EdgeStreams :
         e = [BaseEnv EXCEPT !.ffprobe.streams = <<a>>]
    \/ \E a \in RawStreams \cup EdgeStreams, b \in RawStreams \cup EdgeStreams :
         e = [BaseEnv EXCEPT !.ffprobe.streams = <<a, b>>]
    \/ \E f \in Formats : e = [BaseEnv EXCEPT !.ffprobe.format = f]
    \/ \E x \in BOOLEAN, rc \in {0, 1} :
         e = [BaseEnv EXCEPT !.exists = x, !.returncode = rc]

LegacyInit ==
    /\ IsLegacyInput(env)
    /\ pc = "legacy_init"
    /\ self = [streams |-> <<>>]
    /\ i = 0
    /\ proc = "none"
    /\ pos = 0
    /\ obj_str = <<>>
    /\ objs = <<>>
    /\ err = None
    /\ calls = <<>>
    /\ ret = NoCall
    /\ nops = 0
    /\ cli = NoCli

LegacyFails(e) == pc' = "legacy_failed" /\ err' = <<e>>

\* Video.__init__ of src/metadata.py: the path must exist
LegacyCheckPath ==
    /\ pc = "legacy_init"
    /\ calls' = Append(calls, "exists")
    /\ IF env.exists
       THEN pc' = "legacy_call_ffprobe" /\ err' = err
       ELSE LegacyFails("OSError")
    /\ UNCHANGED <<env, self, i, scan, ret, nops, cli>>

\* Video._call_ffprobe of src/metadata.py: the message of the OSError is
\* built from the name video, which the method does not have
LegacyCallFfprobe ==
    /\ pc = "legacy_call_ffprobe"
    /\ calls' = Append(calls, "ffprobe")
    /\ IF env.returncode # 0
       THEN LegacyFails("NameError")
       ELSE pc' = "legacy_container" /\ err' = err
    /\ UNCHANGED <<env, self, i, scan, ret, nops, cli>>

\* _extract_title, _extract_size, _extract_duration, self.sha1sum = None
LegacyExtractContainer ==
    /\ pc = "legacy_container"
    /\ LET fmt == env.ffprobe.format
           v1 == [self EXCEPT !.streams = <<>>] @@ [title |-> _get_title(fmt)]
       IN  IF ~Has(fmt, "size")
           THEN self' = v1 /\ LegacyFails("KeyError")
           ELSE IF ~Has(fmt, "duration")
           THEN /\ self' = v1 @@ [size |-> <<fmt.size>>,
                                  size_human |-> <<humansize(fmt.size)>>]
                /\ LegacyFails("KeyError")
           ELSE /\ self' = v1 @@ [size |-> <<fmt.size>>,
                                  size_human |-> <<humansize(fmt.size)>>,
                                  duration |-> <<fmt.duration>>,
                                  duration_human |-> <<humantime(fmt.duration)>>,
                                  sha1sum |-> None]
                /\ pc' = "legacy_streams"
                /\ err' = err
    /\ i' = 0
    /\ UNCHANGED <<env, scan, calls, ret, nops, cli>>

\* Video._extract_streams of src/metadata.py: one pass of its loop
LegacyProcessStream ==
    /\ pc = "legacy_streams"
    /\ i < Len(env.ffprobe.streams)
    /\ LET r == legacy_process_stream(env.ffprobe.streams[i + 1])
       IN  IF r.err # None
           THEN LegacyFails(r.err[1]) /\ UNCHANGED <<self, i>>
           ELSE /\ self' = [self EXCEPT !.streams = Append(@, r.s)]
                /\ i' = i + 1
                /\ UNCHANGED <<pc, err>>
    /\ UNCHANGED <<env, scan, calls, ret, nops, cli>>

\* Video.__init__ of src/metadata.py returns
LegacyConstructed ==
    /\ pc = "legacy_streams"
    /\ i = Len(env.ffprobe.streams)
    /\ pc' = "legacy_constructed"
    /\ UNCHANGED <<env, self, i, scan, err, calls, ret, nops, cli>>

LegacyNext ==
    \/ LegacyCheckPath
    \/ LegacyCallFfprobe
    \/ LegacyExtractContainer
    \/ LegacyProcessStream
    \/ LegacyConstructed

LegacySpec == LegacyInit /\ [][LegacyNext]_vars

(***************************************************************************)
(* A Video of either module.                                               *)
(***************************************************************************)
ModulesInit == Init \/ LegacyInit

ModulesNext == Next \/ LegacyNext

ModulesSpec == ModulesInit /\ [][ModulesNext]_vars

(***************************************************************************)
(* The size of the file and its text, on sizes of every magnitude.         *)
(***************************************************************************)
\* the significant digits of the sizes: five at most, so that every
\* quotient by 1024.0 is an exact float
Mantissas ==
    { <<1>>, <<1023>>, <<1, 512>>, <<1, 256>>, <<1, 768>>, <<1023, 1023>>,
      <<8, 291, 902>>, <<1023, 1023, 1023, 1023, 1023>> }

Zeros(n) == [j \in 1..n |-> 0]

\* int(self._ffprobe['format']['size']): 0, or significant digits followed
\* by zeros
Sizes ==
    {<<>>} \cup UNION { { m \o Zeros(z) : z \in 0..(MaxDigits - Len(m)) } :
                          m \in Mantissas }

ExtractSizeInit ==
    /\ \E d \in Sizes :
          env = [BaseEnv EXCEPT !.ffprobe.format.size = d]
    /\ pc = "extract_size"
    /\ self = [size |-> None, size_human |-> None]
    /\ i = 0
    /\ proc = "none"
    /\ pos = 0
    /\ obj_str = <<>>
    /\ objs = <<>>
    /\ err = None
    /\ calls = <<>>
    /\ ret = NoCall
    /\ nops = 0
    /\ cli = NoCli

\* _extract_size: ret keeps the locals unit and tmp as the loop left them
ExtractSize ==
    /\ pc = "extract_size"
    /\ LET size == env.ffprobe.format.size
       IN  /\ self' = [size |-> <<size>>,
                       size_human |-> <<humansize_digits(size)>>]
           /\ ret' = [op |-> "_extract_size", include_sha1sum |-> FALSE,
                      value |-> size_loop(size, <<>>, 1)]
    /\ pc' = "size_extracted"
    /\ UNCHANGED <<env, i, scan, err, calls, nops, cli>>

ExtractSizeNext == ExtractSize

ExtractSizeSpec == ExtractSizeInit /\ [][ExtractSizeNext]_vars

(***************************************************************************)
(* Properties.                                                             *)
(***************************************************************************)
RawRecords == env.ffprobe.streams
StreamsDone == pc \in {"header", "sampling", "classify", "constructed"}
IsVideo(st) == st.type = <<"video">>

\* the position of the first video Stream whose field f is non-null (0: none)
FirstVideoWith(f) ==
    LET have == {j \in 1..Len(self.streams) :
                    IsVideo(self.streams[j]) /\ self.streams[j][f] # None}
    IN  IF have = {} THEN 0 ELSE CHOOSE j \in have : \A k \in have : j <= k

MirrorIsFirst(f, text) ==
    LET j == FirstVideoWith(f)
    IN  IF j = 0 THEN self[f] = None /\ self[text] = None
        ELSE self[f] = self.streams[j][f] /\ self[text] = self.streams[j][text]

MirrorSticks(f, text) ==
    self[f] # None => self'[f] = self[f] /\ self'[text] = self[text]

\* C1: while and after the stream records are processed, each container-level
\* mirror (dimension, DAR, frame rate) and its text are those of the first
\* video stream, in input order, whose value for that field is non-null,
\* and no step changes a mirror that is set.
C1_MirrorsFollowFirstVideoStream ==
    /\ [](pc # "failed" =>
            /\ MirrorIsFirst("dimension", "dimension_text")
            /\ MirrorIsFirst("dar", "dar_text")
            /\ MirrorIsFirst("frame_rate", "frame_rate_text"))
    /\ [][/\ MirrorSticks("dimension", "dimension_text")
          /\ MirrorSticks("dar", "dar_text")
          /\ MirrorSticks("frame_rate", "frame_rate_text")]_vars

\* a Video of three video streams: the first has no frame rate, the second
\* gives the mirror, the third has another frame rate and dimension
C1_Witness ==
    /\ pc = "constructed"
    /\ Len(self.streams) = 3
    /\ \A j \in 1..3 : IsVideo(self.streams[j])
    /\ self.streams[1].frame_rate = None
    /\ self.streams[2].frame_rate # None
    /\ self.streams[3].frame_rate \notin {None, self.streams[2].frame_rate}
    /\ self.frame_rate = self.streams[2].frame_rate
    /\ self.frame_rate_text = self.streams[2].frame_rate_text
    /\ self.dimension = self.streams[1].dimension
    /\ self.streams[3].dimension # self.streams[1].dimension

\* the frames 21..40 of the sample that carry interlaced_frame = 1
InterlacedOfSample ==
    {j \in (Dropped + 1)..SampleSize :
        /\ "interlaced_frame" \in DOMAIN objs[j]
        /\ objs[j]["interlaced_frame"] = 1}

\* C2: once 40 frame objects are collected, the scan type is decided by the
\* number n of frames 21..40 flagged interlaced: progressive for n = 0,
\* telecined for n = 8, interlaced for n = 20 and for every other n; a
\* frame without the flag counts as not interlaced.
C2_ClassifiedByLatterTwenty ==
    (pc = "constructed" /\ Len(objs) = SampleSize) =>
        LET n == Cardinality(InterlacedOfSample)
        IN  self.scan_type =
               IF n = 0 THEN <<"Progressive scan">>
               ELSE IF n = 8 THEN <<"Telecined video">>
               ELSE <<"Interlaced scan">>

\* a telecined sample whose first twenty frames are all interlaced and
\* whose other frames carry no flag
C2_Witness ==
    /\ pc = "constructed"
    /\ Len(objs) = SampleSize
    /\ self.scan_type = <<"Telecined video">>
    /\ \A j \in 1..Dropped : objs[j]["interlaced_frame"] = 1
    /\ \E j \in (Dropped + 1)..SampleSize :
          "interlaced_frame" \notin DOMAIN objs[j]

FrameProbeStarted == \E j \in 1..Len(calls) : calls[j] = "ffprobe -show_frames"
DetectionOver == proc # "none" /\ pc \in {"constructed", "failed"}
OutputEnded == pos = NumLines(env.producer)

\* C3: when the frame probe's output has ended with fewer than 40 frame
\* objects collected, detection ends with the result null (and the Video is
\* constructed): it does not end in an exception.
C3_ShortOutputGivesNull ==
    (DetectionOver /\ OutputEnded /\ Len(objs) < SampleSize) =>
        (pc = "constructed" /\ self.scan_type = None)

\* C4: the producer is terminated exactly when the 40th frame object has
\* been parsed, never more than 40 objects are held, and nothing is read
\* or collected once the producer is terminated.
C4_TerminatedAtFortiethFrame ==
    /\ [](/\ Len(objs) <= SampleSize
          /\ (proc = "terminated") <=> (Len(objs) = SampleSize))
    /\ [][proc = "terminated" => (pos' = pos /\ objs' = objs)]_vars

\* the producer is terminated with output left unread, the Video constructed
C4_Witness ==
    /\ pc = "constructed"
    /\ proc = "terminated"
    /\ Len(objs) = SampleSize
    /\ env.producer.n > SampleSize
    /\ pos < NumLines(env.producer)

\* C5: scan type detection never raises: no exception leaves
\* Video.__init__ once the frame probe is started.
C5_DetectionNeverRaises == ~(pc = "failed" /\ proc # "none")

\* C6: the frame probe is started only when a Stream of the list has type
\* video; a Video without a video stream is constructed with scan_type null
\* and without any frame probe.
C6_FrameProbeNeedsVideoStream ==
    LET video_stream == \E j \in 1..Len(self.streams) :
                            self.streams[j].type = <<"video">>
    IN  /\ (FrameProbeStarted \/ proc # "none") =>
              (video_stream /\ Len(self.streams) = Len(RawRecords))
        /\ (pc = "constructed" /\ ~video_stream) =>
              (self.scan_type = None /\ ~FrameProbeStarted /\ proc = "none")

\* a Video of two streams, neither a video stream
C6_Witness ==
    /\ pc = "constructed"
    /\ Len(self.streams) = 2
    /\ \A j \in 1..2 : self.streams[j].type \in {<<"audio">>, <<"subtitle">>}
    /\ self.scan_type = None
    /\ ~FrameProbeStarted

FileReads == Cardinality({j \in 1..Len(calls) : calls[j] = "open"})
DigestLine(d) == "SHA-1 digest:           " \o d

\* C7: over any calls of compute_sha1sum and of format_metadata with the
\* digest, the file is opened for hashing at most once, every call returns
\* or prints the digest the Video holds, and a digest held is never replaced.
C7_DigestComputedOnce ==
    /\ [](/\ FileReads <= 1
          /\ ret.op = "compute_sha1sum" =>
                (self.sha1sum # None /\ ret.value = self.sha1sum)
          /\ (ret.op = "format_metadata" /\ ret.include_sha1sum) =>
                /\ self.sha1sum # None
                /\ \E j \in 1..Len(ret.value) :
                      ret.value[j] = DigestLine(self.sha1sum[1])
          /\ (self.sha1sum # None) <=> (FileReads = 1))
    /\ [][self.sha1sum # None => self'.sha1sum = self.sha1sum]_vars

\* two calls, the file rewritten meanwhile: the report prints the digest of
\* the file as it was, read once
C7_Witness ==
    /\ nops = 2
    /\ env.content = 2
    /\ FileReads = 1
    /\ self.sha1sum = <<Sha1(1)>>
    /\ ret.op = "format_metadata"
    /\ ret.include_sha1sum
    /\ \E j \in 1..Len(ret.value) : ret.value[j] = DigestLine(Sha1(1))

\* C8: a public operation changes no attribute of the constructed Video or
\* of its streams but sha1sum, changes sha1sum only from null to the digest
\* of the file, and format_metadata without the digest leaves it as it is.
C8_OnlySha1sumChanges ==
    [][pc = "constructed" =>
         /\ [self' EXCEPT !.sha1sum = None] = [self EXCEPT !.sha1sum = None]
         /\ self'.sha1sum # self.sha1sum =>
               (self.sha1sum = None /\ self'.sha1sum = <<Sha1(env.content)>>)
         /\ (nops' # nops /\ ret'.op = "format_metadata"
                /\ ~ret'.include_sha1sum) =>
               self'.sha1sum = self.sha1sum]_vars

\* a report without the digest, asked of a Video with streams that holds
\* no digest, and it still holds none
C8_Witness ==
    /\ pc = "constructed"
    /\ nops = 1
    /\ ret.op = "format_metadata"
    /\ ~ret.include_sha1sum
    /\ self.sha1sum = None
    /\ Len(self.streams) > 1

\* C9: once the raw stream records are processed the Video has one Stream
\* per record, in the order of the records, each with the index value and
\* the type of its record ("unknown" for a record without codec_type).
C9_OneStreamPerRecord ==
    StreamsDone =>
        /\ Len(self.streams) = Len(RawRecords)
        /\ \A j \in 1..Len(RawRecords) :
              /\ self.streams[j].index = <<RawRecords[j].index>>
              /\ self.streams[j].type =
                    IF "codec_type" \in DOMAIN RawRecords[j]
                    THEN <<RawRecords[j].codec_type>> ELSE <<"unknown">>

\* three records, one without codec_type, with index values out of line
\* with their positions
C9_Witness ==
    /\ pc = "constructed"
    /\ Len(self.streams) = 3
    /\ \E j \in 1..3 : "codec_type" \notin DOMAIN RawRecords[j]
    /\ \E j \in 1..3 : IsVideo(self.streams[j])
    /\ \A j \in 1..3 : self.streams[j].index # <<j - 1>>

FormatRecord == env.ffprobe.format
LacksSizeOrDuration ==
    "size" \notin DOMAIN FormatRecord \/ "duration" \notin DOMAIN FormatRecord

MainOver == cli.state \in {"returned", "raised"}
Reported(k) == \E j \in 1..Len(cli.out) : cli.out[j].k = k
FailedFiles == {j \in 1..Len(cli.out) : cli.out[j].stream = "stderr"}

\* C14: when main() is over, every path of the command line has been
\* processed and reported (its report printed, or its error written), in
\* order, whatever failed before it, and main() has returned a return code
\* that is non-zero exactly when some file failed.
C14_BatchContinuesAfterFailure ==
    MainOver =>
        /\ cli.state = "returned"
        /\ \A k \in 1..Len(cli.videos) : Reported(k)
        /\ (cli.returncode # 0) <=> (FailedFiles # {})

LacksDimension(r) ==
    /\ "codec_type" \in DOMAIN r
    /\ r.codec_type = "video"
    /\ ("width" \notin DOMAIN r \/ "height" \notin DOMAIN r)

\* C11: a raw stream record declared as video that lacks width or height
\* is never passed: the loop over the records does not get beyond it, the
\* exception of the lookup (KeyError) leaves Video.__init__ when the record
\* is reached, and no Video is constructed, with or without a Stream for it.
C11_VideoRecordWithoutDimensionIsFatal ==
    \A j \in 1..Len(RawRecords) :
        LacksDimension(RawRecords[j]) =>
            /\ ~StreamsDone
            /\ i < j
            /\ Len(self.streams) < j
            /\ (pc = "failed" /\ i = j - 1) => err = <<"KeyError">>

\* the failure on a video record without height that follows a record
\* already turned into a Stream
C11_Witness ==
    /\ pc = "failed"
    /\ err = <<"KeyError">>
    /\ i = 1
    /\ Len(self.streams) = 1
    /\ Len(RawRecords) = 2
    /\ RawRecords[2].codec_type = "video"
    /\ "width" \in DOMAIN RawRecords[2]
    /\ "height" \notin DOMAIN RawRecords[2]

Failed == pc \in {"failed", "legacy_failed"}
ProbeCalls == Cardinality({j \in 1..Len(calls) : calls[j] = "ffprobe"})
NothingExtracted ==
    /\ self \in {NewVideo, [streams |-> <<>>]}
    /\ i = 0
    /\ proc = "none"
    /\ ~FrameProbeStarted

\* C12: when ffprobe -show_format -show_streams exits non-zero on a file
\* that exists, construction goes no further than the call: it ends in an
\* exception given to the caller of Video(), ffprobe has been called once,
\* and no container field, Stream or scan type has been extracted.
C12_ProbeFailureIsFatal ==
    (env.exists /\ env.returncode # 0) =>
        /\ pc \in {"init", "call_ffprobe", "failed",
                   "legacy_init", "legacy_call_ffprobe", "legacy_failed"}
        /\ Failed => (err # None /\ calls = <<"exists", "ffprobe">>)
        /\ pc = "failed" => err = <<"OSError">>
        /\ ProbeCalls <= 1
        /\ NothingExtracted

\* the failure of storyboard.metadata's Video on a non-zero exit status
C12_Witness ==
    /\ pc = "failed"
    /\ err = <<"OSError">>
    /\ env.exists
    /\ env.returncode = 1
    /\ calls = <<"exists", "ffprobe">>
    /\ self = NewVideo

\* C13: for a path that does not exist, construction fails on the test of
\* the path (OSError): ffprobe is never called, for the format and streams
\* or for the frames.
C13_MissingPathFailsBeforeAnyProbe ==
    ~env.exists =>
        /\ pc \in {"init", "failed", "legacy_init", "legacy_failed"}
        /\ Failed => err = <<"OSError">>
        /\ calls \in {<<>>, <<"exists">>}
        /\ NothingExtracted

\* the failure on a missing path, for which ffprobe would have failed too
C13_Witness ==
    /\ pc = "failed"
    /\ err = <<"OSError">>
    /\ ~env.exists
    /\ env.returncode = 1
    /\ calls = <<"exists">>

\* the line of a field, left out when the field is null
FieldLine(label, field) ==
    IF field = None THEN <<>> ELSE <<label \o field[1]>>

\* the report as C15 has it, for the Video as the call left it (the header
\* "Streams:" stands before the lines of the streams)
ClaimedReport ==
    FieldLine("Title:                  ", self.title)
    \o <<"Filename:               " \o env.filename \o env.extension>>
    \o <<"File size:              " \o ToString(self.size[1])
            \o " (" \o self.size_text[1] \o ")">>
    \o (IF ret.include_sha1sum
        THEN FieldLine("SHA-1 digest:           ", self.sha1sum) ELSE <<>>)
    \o FieldLine("Container format:       ", self.format)
    \o FieldLine("Duration:               ", self.duration_text)
    \o FieldLine("Pixel dimensions:       ", self.dimension_text)
    \o FieldLine("Display aspect ratio:   ", self.dar_text)
    \o FieldLine("Scan type:              ", self.scan_type)
    \o (IF self.frame_rate = None THEN <<>>
        ELSE <<"Frame rate:             " \o self.frame_rate_text[1]>>)
    \o <<"Streams:">>
    \o [j \in 1..Len(self.streams) |->
          "    #" \o ToString(self.streams[j].index[1]) \o ": "
             \o self.streams[j].info_string[1]]

\* C15: the report of format_metadata is, in this order, the lines of
\* title, filename, size, digest (when asked for), format, duration,
\* dimension, aspect ratio, scan type and frame rate, then one line per
\* stream in the order of the streams; the line of a field is left out when
\* the field is null and only then: an empty title and a frame rate of 0
\* have their lines.
C15_ReportOmitsExactlyNullFields ==
    (pc = "constructed" /\ ret.op = "format_metadata") =>
        ret.value = ClaimedReport

\* the frame rate string a video stream record is read from: the real
\* frame rate, else the average frame rate, else none
UsedRate(r) ==
    IF "r_frame_rate" \in DOMAIN r THEN <<r.r_frame_rate>>
    ELSE IF "avg_frame_rate" \in DOMAIN r THEN <<r.avg_frame_rate>>
    ELSE None

ZeroDenominator(r) ==
    /\ UsedRate(r) # None
    /\ UsedRate(r)[1].kind = "ratio"
    /\ UsedRate(r)[1].den = 0

\* an MJPEG video stream record with all that a Stream needs but, maybe, a
\* frame rate
PlainVideoRecord(r) ==
    /\ {"index", "codec_type", "codec_name", "width", "height"} \subseteq DOMAIN r
    /\ r.codec_type = "video"
    /\ r.codec_name = "mjpeg"
    /\ r.height > 0

\* C16: the frame rate of a video Stream is the value of the record's
\* r_frame_rate, else of its avg_frame_rate, else null (with a null text); a
\* string with denominator 0 in the field used gives a null frame rate and
\* a null text, and construction does not fail on such a record.
C16_FrameRateSourceAndZeroDenominator ==
    /\ \A j \in 1..Len(self.streams) :
          IsVideo(self.streams[j]) =>
             LET u == UsedRate(RawRecords[j])
             IN  /\ (u = None \/ ZeroDenominator(RawRecords[j])) =>
                       /\ self.streams[j].frame_rate = None
                       /\ self.streams[j].frame_rate_text = None
                 /\ (u # None /\ u[1].kind = "ratio" /\ u[1].den # 0) =>
                       /\ self.streams[j].frame_rate = Frac(u[1].num, u[1].den)
                       /\ self.streams[j].frame_rate_text # None
    /\ \A j \in 1..Len(RawRecords) :
          (PlainVideoRecord(RawRecords[j]) /\ ZeroDenominator(RawRecords[j])) =>
             ~(Failed /\ i = j - 1)

\* the integer nearest to the fraction f, and whether f is within 1e-4 of it
Nearest(f) == (2 * f[1] + f[2]) \div (2 * f[2])
NearInteger(f) ==
    LET d == f[1] - Nearest(f) * f[2]
    IN  10000 * (IF d < 0 THEN -d ELSE d) < f[2]

ClaimedFrameRateText(f) ==
    IF NearInteger(f) THEN ToString(Nearest(f)) \o " fps"
    ELSE Fmt2(f) \o " fps"

\* C17: the text of a non-null frame rate f is "<n> fps", n the integer
\* nearest to f, when f is within 1e-4 of n, from below or from above, and
\* f with two decimals otherwise: "23.98 fps" for 24000/1001, "25 fps" for
\* 25/1, "30 fps" for 29.99995.
C17_FrameRateTextRoundsToNearest ==
    \A j \in 1..Len(self.streams) :
        (IsVideo(self.streams[j]) /\ self.streams[j].frame_rate # None) =>
            LET f == self.streams[j].frame_rate
                text == self.streams[j].frame_rate_text
            IN  /\ text = <<ClaimedFrameRateText(f)>>
                /\ f = Frac(24000, 1001) => text = <<"23.98 fps">>
                /\ f = Frac(25, 1) => text = <<"25 fps">>
                /\ f = Frac(2999995, 100000) => text = <<"30 fps">>

\* the display aspect ratio string of a record evaluates to a number
ParseableDar(r) ==
    /\ "display_aspect_ratio" \in DOMAIN r
    /\ \/ r.display_aspect_ratio.kind = "number"
       \/ /\ r.display_aspect_ratio.kind = "ratio"
          /\ r.display_aspect_ratio.den # 0

\* C18: a video Stream has the value of its record's display_aspect_ratio
\* string, and that string as text, when the field is there and evaluates;
\* otherwise it has width / height and the text "<w>:<h>" of width and
\* height divided by their greatest common divisor ("16:9" for 1920x1080).
\* Its dar and dar_text are never null.
C18_DarOfFieldOrOfDimension ==
    \A j \in 1..Len(self.streams) :
        IsVideo(self.streams[j]) =>
            LET r == RawRecords[j]
                st == self.streams[j]
                g == gcd(r.width, r.height)
            IN  /\ st.dar # None
                /\ st.dar_text # None
                /\ ParseableDar(r) =>
                      /\ r.display_aspect_ratio.kind = "ratio" =>
                            /\ st.dar = Frac(r.display_aspect_ratio.num,
                                             r.display_aspect_ratio.den)
                            /\ st.dar_text =
                                  <<ToString(r.display_aspect_ratio.num)
                                      \o r.display_aspect_ratio.sep
                                      \o ToString(r.display_aspect_ratio.den)>>
                /\ ~ParseableDar(r) =>
                      /\ st.dar = Frac(r.width, r.height)
                      /\ st.dar_text = <<ToString(r.width \div g) \o ":"
                                           \o ToString(r.height \div g)>>
                /\ (~ParseableDar(r) /\ r.width = 1920 /\ r.height = 1080) =>
                      (st.dar = <<16, 9>> /\ st.dar_text = <<"16:9">>)

\* a Video of two video streams: 1920x1080 without the field, and 720x576
\* with a field of denominator 0
C18_Witness ==
    /\ pc = "constructed"
    /\ Len(self.streams) = 2
    /\ "display_aspect_ratio" \notin DOMAIN RawRecords[1]
    /\ self.streams[1].dimension = <<1920, 1080>>
    /\ self.streams[1].dar_text = <<"16:9">>
    /\ "display_aspect_ratio" \in DOMAIN RawRecords[2]
    /\ ~ParseableDar(RawRecords[2])
    /\ self.streams[2].dar_text = <<"5:4">>
    /\ self.dar = <<16, 9>>

\* the codec identifiers the code has a name for, by stream type
CodecTable ==
    [video |-> {"h264", "mpeg2video", "mpeg4", "mjpeg", "theora"},
     audio |-> {"aac", "ac3", "mp3", "vorbis"},
     subtitle |-> {"srt", "ass", "cc_dec"}]

\* a complete video, audio or subtitle record whose codec identifier is in
\* no table
UnknownCodec(r) ==
    /\ {"index", "codec_type", "codec_name"} \subseteq DOMAIN r
    /\ r.codec_type \in {"video", "audio", "subtitle"}
    /\ r.codec_name \notin CodecTable[r.codec_type]
    /\ r.codec_type = "video" =>
          ({"width", "height"} \subseteq DOMAIN r /\ r.height > 0)

\* C19: a video, audio or subtitle record whose codec identifier is in no
\* table does not make construction fail, with or without a long codec
\* name in the record; its Stream has a non-null codec label, the long
\* codec name when the record has one.
C19_UnknownCodecNeverRaises ==
    \A j \in 1..Len(RawRecords) :
        UnknownCodec(RawRecords[j]) =>
            /\ ~(pc = "failed" /\ i = j - 1)
            /\ j <= Len(self.streams) =>
                  /\ self.streams[j].codec # None
                  /\ "codec_long_name" \in DOMAIN RawRecords[j] =>
                        self.streams[j].codec = <<RawRecords[j].codec_long_name>>

ContainerDone ==
    pc \in {"streams", "header", "sampling", "classify", "constructed"}

\* the names C20 gives to a file of the MOV/MP4/3GP family, by extension
ClaimedMovFormat ==
    [x \in Extensions |->
        CASE x = ".MOV" -> "QuickTime movie"
          [] x = ".3gp" -> "3GPP"
          [] x = ".3g2" -> "3GPP2"
          [] x = ".mj2" -> "Motion JPEG 2000"
          [] x = ".mp4" -> "MPEG-4 Part 14 (MP4)"
          [] x = ".M4V" -> "MPEG-4 Part 14 (M4V)"
          [] x \in {".mkv", ".MKV"} -> "MPEG-4 Part 14 (MKV)"
          [] x \in {".webm", ".WEBM"} -> "MPEG-4 Part 14 (WEBM)"
          [] x = ".avi" -> "MPEG-4 Part 14 (AVI)"
          [] x = "" -> "MPEG-4 Part 14 ()"]

\* the extension in upper case, without its period
ClaimedUpperExtension ==
    [x \in Extensions |->
        CASE x = "" -> ""
          [] x \in {".mkv", ".MKV"} -> "MKV"
          [] x \in {".webm", ".WEBM"} -> "WEBM"
          [] x = ".mp4" -> "MP4"
          [] x = ".M4V" -> "M4V"
          [] x = ".MOV" -> "MOV"
          [] x = ".3gp" -> "3GP"
          [] x = ".3g2" -> "3G2"
          [] x = ".mj2" -> "MJ2"
          [] x = ".avi" -> "AVI"]

NamedIdentifiers ==
    {"mpegts", "mpeg", "mov,mp4,m4a,3gp,3g2,mj2", "mpegvideo",
     "matroska,webm", "flv", "ogg", "avi", "asf"}

\* C20: once the container fields are read the format name is not null;
\* for the MOV/MP4/3GP identifier it is QuickTime movie, 3GPP, 3GPP2, Motion
\* JPEG 2000 or "MPEG-4 Part 14 (<EXT>)" by the extension in lower case, for
\* the Matroska/WebM identifier it is WebM for the extension webm and
\* Matroska otherwise, and for an identifier the code does not name it is
\* the extension in upper case, also for a path without extension or with
\* an extension in upper case.
C20_FormatNameNeverNull ==
    ContainerDone =>
        LET name == env.ffprobe.format.format_name
            x == env.extension
        IN  /\ self.format # None
            /\ name = "mov,mp4,m4a,3gp,3g2,mj2" =>
                  self.format = <<ClaimedMovFormat[x]>>
            /\ name = "matroska,webm" =>
                  self.format = IF x \in {".webm", ".WEBM"} THEN <<"WebM">>
                                ELSE <<"Matroska">>
            /\ name \notin NamedIdentifiers =>
                  self.format = <<ClaimedUpperExtension[x]>>

\* a file of an identifier the code does not name, without extension: the
\* format name is the empty string
C20_Witness ==
    /\ pc = "constructed"
    /\ env.ffprobe.format.format_name = "nut"
    /\ env.extension = ""
    /\ self.format = <<"">>

\* the contract of one Stream object
StreamContract(st) ==
    /\ (st.frame_rate_text # None) <=> (st.frame_rate # None)
    /\ (st.bit_rate_text # None) <=> (st.bit_rate # None)
    /\ IF st.type = <<"video">>
       THEN /\ st.width # None
            /\ st.height # None
            /\ st.dimension = <<st.width[1], st.height[1]>>
       ELSE /\ st.width = None
            /\ st.height = None
            /\ st.dimension = None
            /\ st.dar = None
            /\ st.frame_rate = None

\* C21: every Stream the Video holds has dimension equal to (width, height),
\* a frame rate text exactly when it has a frame rate, a bit rate text
\* exactly when it has a bit rate, and, when it is not a video stream, no
\* width, height, dimension, DAR or frame rate.
C21_StreamContract ==
    \A j \in 1..Len(self.streams) : StreamContract(self.streams[j])

\* a constructed Video holding a video stream with a frame rate and a bit
\* rate, a video stream with neither, and an audio stream with a bit rate
C21_Witness ==
    /\ pc = "constructed"
    /\ Len(self.streams) = 3
    /\ \E j \in 1..3 :
          /\ self.streams[j].type = <<"video">>
          /\ self.streams[j].frame_rate # None
          /\ self.streams[j].bit_rate # None
    /\ \E j \in 1..3 :
          /\ self.streams[j].type = <<"video">>
          /\ self.streams[j].frame_rate = None
          /\ self.streams[j].bit_rate = None
    /\ \E j \in 1..3 :
          /\ self.streams[j].type = <<"audio">>
          /\ self.streams[j].bit_rate # None

ClaimedUnits == <<"", "Ki", "Mi", "Gi", "Ti", "Pi", "Ei", "Zi", "Yi">>
SizeDigits == env.ffprobe.format.size
\* size / 1024^(j-1) < 1024, that is size < 1024^j
ScaledBelow1024(j) == Len(SizeDigits) <= j
FirstUnitBelow1024 ==
    IF \E j \in 1..8 : ScaledBelow1024(j)
    THEN CHOOSE j \in 1..8 :
            ScaledBelow1024(j) /\ \A k \in 1..(j - 1) : ~ScaledBelow1024(k)
    ELSE 9

\* C22: the size text is computed with at most 8 divisions by 1024, its unit
\* is the first of "", Ki, ..., Zi for which the scaled value is below 1024
\* and Yi for every size of 1024^8 or more, and the sizes 0, 1024 and 1024^8
\* give "0.0B", "1.0KiB" and "1.0YiB".
C22_HumanSizeStopsAtYi ==
    pc = "size_extracted" =>
        /\ ret.value.divisions <= 8
        /\ ret.value.divisions = FirstUnitBelow1024 - 1
        /\ ret.value.unit = ClaimedUnits[FirstUnitBelow1024]
        /\ (Len(SizeDigits) >= 9) <=> (ret.value.unit = "Yi")
        /\ \E j \in 1..9 :
              LET u == ClaimedUnits[j] \o "B"
                  t == self.size_human[1]
              IN  /\ Len(t) > Len(u)
                  /\ SubSeq(t, Len(t) - Len(u) + 1, Len(t)) = u
                  /\ ret.value.unit = ClaimedUnits[j]
        /\ SizeDigits = <<>> => self.size_human = <<"0.0B">>
        /\ SizeDigits = <<1, 0>> => self.size_human = <<"1.0KiB">>
        /\ SizeDigits = <<1, 512>> => self.size_human = <<"1.5KiB">>
        /\ SizeDigits = <<1, 0, 0, 0, 0, 0, 0, 0, 0>> =>
              self.size_human = <<"1.0YiB">>

\* a size of 1024^9 or more has its text, in Yi
C22_Witness ==
    /\ pc = "size_extracted"
    /\ Len(SizeDigits) >= 10
    /\ ret.value.unit = "Yi"
    /\ ret.value.divisions = 8

\* the header skip has been made
HeaderSkipped ==
    FrameProbeStarted /\ pc \in {"sampling", "classify", "constructed"}
\* the number of line q of proc.stdout in the output without the empty line
\* (0: it is the empty line)
Unblanked(p, q) ==
    IF p.blank = 0 \/ q < p.blank THEN q ELSE IF q = p.blank THEN 0 ELSE q - 1
\* line q of proc.stdout is text of a frame object
IsFrameLine(p, q) ==
    /\ Unblanked(p, q) > p.header
    /\ Unblanked(p, q) <= p.header + FrameLen(p) * p.n
\* frame f as the producer emits it, parsed
EmittedFrame(p, f) ==
    json_loads(<<"{", MediaType, ",", FlagMember(p, f)>>
               \o (IF p.nested THEN <<",">> \o SideData ELSE <<>>)
               \o <<"}">>).val

\* C23: once the opening wrapper is skipped, no line skipped is text of a
\* frame object, and the first object collected, if any, is the first frame
\* object the producer emitted, however the wrapper is spread on lines.
C23_HeaderSkipKeepsFirstFrame ==
    HeaderSkipped =>
        /\ \A q \in 1..2 : ~IsFrameLine(env.producer, q)
        /\ objs # <<>> =>
              /\ env.producer.n >= 1
              /\ objs[1] = EmittedFrame(env.producer, 1)

\* the place in proc.stdout of line x of the output without the empty line
Blanked(p, x) == IF p.blank = 0 \/ x < p.blank THEN x ELSE x + 1
\* the frame objects the producer emits whole before its output ends
Emitted(p) ==
    Cardinality({f \in 1..p.n :
                    Blanked(p, p.header + FrameLen(p) * f) <= NumLines(p)})
SamplingOver == HeaderSkipped /\ pc \in {"classify", "constructed"}

\* C24: the objects collected are the frame objects the producer emitted,
\* each once and in emission order, whatever their split into lines: when
\* the sampling is over none of the first 40 emitted is missing, and the
\* accumulator is empty after every collected object.
C24_EachFrameCollectedOnceInOrder ==
    /\ [](HeaderSkipped =>
            /\ Len(objs) <= Emitted(env.producer)
            /\ \A f \in 1..Len(objs) : objs[f] = EmittedFrame(env.producer, f)
            /\ SamplingOver =>
                  Len(objs) = IF Emitted(env.producer) < SampleSize
                              THEN Emitted(env.producer) ELSE SampleSize)
    /\ [][objs' # objs => obj_str' = <<>>]_vars

\* C25: when scan type detection has returned its result, the frame probe
\* process has been terminated or waited for, whether 40 frame objects were
\* collected or the output ended before.
C25_ProducerStoppedOnEveryPath ==
    (FrameProbeStarted /\ pc = "constructed") =>
        proc \in {"terminated", "reaped"}

\* the steps of Video.__init__ in the order of the claim
Stage ==
    CASE pc = "init" -> 0
      [] pc = "call_ffprobe" -> 1
      [] pc = "container" -> 2
      [] pc = "streams" -> 3
      [] pc \in {"header", "sampling", "classify"} -> 4
      [] pc = "constructed" -> 5
      [] OTHER -> 6
CountOf(c) == Cardinality({j \in 1..Len(calls) : calls[j] = c})
ContainerExtracted ==
    /\ self.format # None
    /\ self.size # None
    /\ self.duration # None

\* C26: a Video is constructed in one pass: the format-and-streams probe,
\* then the container fields, then the stream records one by one in their
\* order, then at most one frame probe, which starts only when every
\* stream record is processed; no step is gone back to, and sha1sum is
\* null when the construction completes.
C26_ConstructionIsOnePassInOrder ==
    /\ [](pc # "failed" =>
            /\ CountOf("ffprobe") = (IF Stage >= 2 THEN 1 ELSE 0)
            /\ CountOf("ffprobe -show_frames") <= 1
            /\ Stage <= 2 => (~ContainerExtracted /\ self.streams = <<>>)
            /\ Stage >= 3 => ContainerExtracted
            /\ Stage = 3 => (~FrameProbeStarted /\ Len(self.streams) = i)
            /\ Stage = 4 => FrameProbeStarted
            /\ FrameProbeStarted =>
                  (Stage >= 4 /\ Len(self.streams) = Len(RawRecords)))
    /\ [][/\ pc' # "failed" => Stage' >= Stage
          /\ pc' # pc => pc # "constructed"
          /\ self'.streams # self.streams =>
                /\ pc = "streams"
                /\ Len(self'.streams) = Len(self.streams) + 1
                /\ SubSeq(self'.streams, 1, Len(self.streams)) = self.streams
                /\ self'.streams[Len(self'.streams)].index
                      = <<RawRecords[Len(self'.streams)].index>>
          /\ (pc # "constructed" /\ pc' = "constructed") =>
                self'.sha1sum = None]_vars

\* a Video of three streams is constructed after one frame probe
C26_Witness ==
    /\ pc = "constructed"
    /\ nops = 0
    /\ Len(self.streams) = 3
    /\ calls = <<"exists", "ffprobe", "ffprobe -show_frames">>
    /\ self.sha1sum = None

ScanTypes == {"Progressive scan", "Interlaced scan", "Telecined video"}
IsScanTypeLine(l) == \E t \in ScanTypes : l = "Scan type:              " \o t
\* the scan type line of the report of file k of the command line
ScanTypeReported(k) ==
    LET printed == SelectSeq(cli.out, LAMBDA o : o.k = k /\ o.stream = "stdout")
    IN  IF printed = <<>> THEN <<>>
        ELSE SelectSeq(printed[1].text, IsScanTypeLine)
BothReported == \A k \in 1..2 : ScanTypeReported(k) # <<>>

\* C27: two files of at least 40 frames whose frames 21..40 carry the same
\* interlaced flags are given the same scan type, whatever the flags of
\* their frames 1..20 and of the frames after the 40th.
C27_ScanTypeIgnoresFormerTwenty ==
    (/\ Len(cli.videos) = 2
     /\ cli.state = "returned"
     /\ \A k \in 1..2 : cli.videos[k].producer.n >= SampleSize
     /\ SameLatterFlags(cli.videos[1], cli.videos[2])) =>
        /\ BothReported
        /\ ScanTypeReported(1) = ScanTypeReported(2)

\* two telecined files reported, one with frames 1..20 all interlaced and
\* further frames, the other with frames 1..20 not interlaced and no more
C27_Witness ==
    /\ cli.state = "returned"
    /\ BothReported
    /\ ScanTypeReported(1) = <<"Scan type:              Telecined video">>
    /\ cli.videos[1].producer.a = "1"
    /\ cli.videos[1].producer.n > SampleSize
    /\ cli.videos[2].producer.a = "0"
    /\ cli.videos[2].producer.n = SampleSize
    /\ cli.videos[1].producer.k = Telecined

====
